---- MODULE Spec2Model ----
(***************************************************************************)
(* Model of the OCR service of the scientific calculator                   *)
(* (src/PythonOCR/ocr_service.py): the /recognize handler, the tiered      *)
(* canonicalizer, the bracket balancer and the confidence estimator.       *)
(*                                                                         *)
(* A Python string is a sequence of one-character strings:                 *)
(* "(x" is <<"(", "x">>.  Python's None is the model value None.           *)
(* Confidence values are integers in thousandths (0.95 is 950), which is   *)
(* the precision of round(confidence, 3) in the response.                  *)
(***************************************************************************)
EXTENDS Naturals, Integers, Sequences, FiniteSets, TLC

\* Python's None, told from every string (a sequence of characters) by its
\* element, which is no character
None == <<"None">>

\* F applied to the value of e: a call evaluates its argument once, before
\* the body runs
Apply(F(_), e) == CHOOSE r \in {F(v) : v \in {e}} : TRUE

(***************************************************************************)
(* Bounds of the model.                                                    *)
(***************************************************************************)
\* longest text handed to balance_parentheses in SpecBalance
MaxBalLen == 4
\* longest markup string the OCR model returns in Spec
MaxLen == 3
\* SpecConfidence: the length of the long prefix of a scored text, and the
\* longest suffix that follows a prefix
LongPad == 199
MaxProbeLen == 2
\* SpecText: the most pieces a text is made of, and the most rows of a text
\* with row breaks
MaxPieces == 3
MaxRows == 3

(***************************************************************************)
(* Strings.                                                                *)
(***************************************************************************)
\* all strings over alphabet A of length at most n
StringsUpTo(A, n) == UNION {[1..k -> A] : k \in 0..n}

\* Python's str.isspace for the characters of the model
IsSpace(c) == c \in {" ", "\t", "\n"}

RECURSIVE LStrip(_)
LStrip(s) == IF s # <<>> /\ IsSpace(Head(s)) THEN LStrip(Tail(s)) ELSE s

RECURSIVE RStrip(_)
RStrip(s) ==
  IF s # <<>> /\ IsSpace(s[Len(s)]) THEN RStrip(SubSeq(s, 1, Len(s) - 1)) ELSE s

\* str.strip()
Strip(s) == RStrip(LStrip(s))

\* str.count(c) for a one-character c
Count(s, c) == Cardinality({i \in 1..Len(s) : s[i] = c})

\* s[i:] of Python, with the model's 1-based index i
From(s, i) == SubSeq(s, i, Len(s))

\* s.startswith(p) at the model's 1-based index i
StartsWithAt(s, i, p) ==
  /\ i + Len(p) - 1 <= Len(s)
  /\ SubSeq(s, i, i + Len(p) - 1) = p

\* str.replace(old, new): leftmost non-overlapping occurrences, old non-empty
RECURSIVE Replace(_, _, _)
Replace(s, old, new) ==
  IF s = <<>> THEN <<>>
  ELSE IF StartsWithAt(s, 1, old) THEN new \o Replace(From(s, Len(old) + 1), old, new)
  ELSE <<Head(s)>> \o Replace(Tail(s), old, new)

\* the elements of a sequence in reverse order: reversed(xs)
RECURSIVE Reversed(_)
Reversed(xs) == IF xs = <<>> THEN <<>> ELSE Reversed(Tail(xs)) \o <<Head(xs)>>

(***************************************************************************)
(* balance_parentheses (ocr_service.py 416-463).                           *)
(***************************************************************************)
\* pairs.values() and pairs.keys()
Openers == {"(", "[", "{"}
Closers == {")", "]", "}"}

\* pairs = {')': '(', ']': '[', '}': '{'}
pairs(c) == CASE c = ")" -> "(" [] c = "]" -> "[" [] c = "}" -> "{"

\* rev_pairs = {'(': ')', '[': ']', '{': '}'}
rev_pairs(c) == CASE c = "(" -> ")" [] c = "[" -> "]" [] c = "{" -> "}"

\* A plausible slip in the test of line 436: the stack top compared with the
\* closer itself instead of its opener, so that no closer ever matches.
ClosesTopWrongKey(stack, char) ==
  stack # <<>> /\ stack[Len(stack)][1] = char

\* line 436 (and 455): stack and stack[-1][0] == pairs[char]
ClosesTop(stack, char) ==
  stack # <<>> /\ stack[Len(stack)][1] = pairs(char)

\* The scan of lines 432-439 (and of 451-456) from index i on: the stack of
\* <<char, index>> pairs and the indices of the closers that matched nothing.
RECURSIVE ScanBrackets(_, _, _, _)
ScanBrackets(text, i, stack, to_remove) ==
  IF i > Len(text) THEN [stack |-> stack, to_remove |-> to_remove]
  ELSE LET char == text[i] IN
    IF char \in Openers
      THEN ScanBrackets(text, i + 1, Append(stack, <<char, i>>), to_remove)
    ELSE IF char \in Closers
      THEN IF ClosesTop(stack, char)
             THEN ScanBrackets(text, i + 1, SubSeq(stack, 1, Len(stack) - 1), to_remove)
             ELSE ScanBrackets(text, i + 1, stack, Append(to_remove, i))
    ELSE ScanBrackets(text, i + 1, stack, to_remove)

\* A plausible slip in lines 442-443: the orphan closers are found but not
\* removed.
RemoveOrphansKeepsAll(text, to_remove) == text

\* lines 442-443: result.pop(i) for i in reversed(to_remove)
RemoveOrphans(text, to_remove) ==
  LET keep == {i \in 1..Len(text) : \A k \in 1..Len(to_remove) : to_remove[k] # i}
      RECURSIVE Kept(_)
      Kept(i) ==
        IF i > Len(text) THEN <<>>
        ELSE (IF i \in keep THEN <<text[i]>> ELSE <<>>) \o Kept(i + 1)
  IN Kept(1)

\* A plausible slip in lines 459-461: the closers appended in the order of
\* opening.
MissingClosersInOpeningOrder(stack) == [i \in 1..Len(stack) |-> rev_pairs(stack[i][1])]

\* lines 459-461: the closer of every opener left on the stack, last opened first
RECURSIVE MissingClosers(_)
MissingClosers(stack) ==
  IF stack = <<>> THEN <<>>
  ELSE <<rev_pairs(stack[Len(stack)][1])>> \o MissingClosers(SubSeq(stack, 1, Len(stack) - 1))

\* lines 446-463: the second scan and the closers appended
CloseOpeners(final_result) ==
  final_result
    \o Apply(MissingClosers, Apply(LAMBDA v : ScanBrackets(v, 1, <<>>, <<>>), final_result).stack)

balance_parentheses(text) ==
  IF text = <<>> THEN text
  ELSE LET pass1 == Apply(LAMBDA v : ScanBrackets(v, 1, <<>>, <<>>), text)   \* 427-439
           final_result == Apply(LAMBDA r : RemoveOrphans(text, r), pass1.to_remove)  \* 441-443
       IN Apply(CloseOpeners, final_result)

(***************************************************************************)
(* Character classes of the regular expressions.                           *)
(***************************************************************************)
Digits == {"0", "1", "2", "3", "4", "5", "6", "7", "8", "9"}

Letters ==
  {"a", "b", "c", "d", "e", "f", "g", "h", "i", "j", "k", "l", "m",
   "n", "o", "p", "q", "r", "s", "t", "u", "v", "w", "x", "y", "z",
   "A", "B", "C", "D", "E", "F", "G", "H", "I", "J", "K", "L", "M",
   "N", "O", "P", "Q", "R", "S", "T", "U", "V", "W", "X", "Y", "Z"}

\* whether character c is in the class named cls
InClass(c, cls) ==
  CASE cls = "[a-zA-Z0-9]" -> c \in Letters \cup Digits
    [] cls = "[^{}]" -> c \notin {"{", "}"}
    [] cls = "[^()]" -> c \notin {"(", ")"}
    [] cls = "[a-zA-Z0-9+-*/]" -> c \in Letters \cup Digits \cup {"+", "-", "*", "/"}
    [] cls = "[a-zA-Z]" -> c \in Letters
    [] cls = "\\s" -> IsSpace(c)

\* the length of the longest run of characters of class cls that starts at i
RECURSIVE RunLen(_, _, _)
RunLen(s, i, cls) ==
  IF i <= Len(s) /\ InClass(s[i], cls) THEN 1 + RunLen(s, i + 1, cls) ELSE 0

\* the character at i is c
At(s, i, c) == i >= 1 /\ i <= Len(s) /\ s[i] = c

\* the character at i is c in either case (re.IGNORECASE), c a lower-case letter
AtAnyCase(s, i, c) ==
  At(s, i, c) \/ At(s, i, CASE c = "c" -> "C" [] c = "o" -> "O" [] c = "s" -> "S")

\* \w of the regular expressions
IsWord(s, i) == i >= 1 /\ i <= Len(s) /\ s[i] \in Letters \cup Digits \cup {"_"}

\* \b between the characters at i - 1 and at i
WordBoundary(s, i) == IsWord(s, i - 1) # IsWord(s, i)

NoMatch == [len |-> 0, repl |-> <<>>]

\* the command \cos
BackslashCos == <<"\\", "c", "o", "s">>

(***************************************************************************)
(* heuristic_semantic_correction (ocr_service.py 466-632).                 *)
(*                                                                         *)
(* The texts of the model are made of the characters ( ) { } x ^, the      *)
(* backslash and the word cos, with no whitespace, and a few named texts   *)
(* (a fraction with digit arguments, brace groups around a and b).  On     *)
(* such texts the rules of the function that can match are the ones below, *)
(* applied in the order of the source; each of the others needs a          *)
(* character or a word the texts do not hold (whitespace, a digit next to  *)
(* o or x, a star, a wrapper or spacing command, another function or Greek *)
(* name, a differential).                                                  *)
(***************************************************************************)
\* line 516 at i: \{\{([^{}]+)\}\} replaced by {\1}
MatchDoubleBrace(s, i) ==
  LET n == RunLen(s, i + 2, "[^{}]") IN
    IF /\ At(s, i, "{") /\ At(s, i + 1, "{") /\ n >= 1
       /\ At(s, i + 2 + n, "}") /\ At(s, i + 3 + n, "}")
    THEN [len |-> n + 4, repl |-> <<"{">> \o SubSeq(s, i + 2, i + 1 + n) \o <<"}">>]
    ELSE NoMatch

\* line 518 at i: (?<![\^_])\{([a-zA-Z0-9\+\-\*\/]+)\} replaced by (\1)
MatchSingleBrace(s, i) ==
  LET n == RunLen(s, i + 1, "[a-zA-Z0-9+-*/]") IN
    IF /\ At(s, i, "{") /\ ~At(s, i - 1, "^") /\ ~At(s, i - 1, "_")
       /\ n >= 1 /\ At(s, i + 1 + n, "}")
    THEN [len |-> n + 2, repl |-> <<"(">> \o SubSeq(s, i + 1, i + n) \o <<")">>]
    ELSE NoMatch

\* line 608 at i: \(\s*\(([^\(\)]+)\)\s*\) replaced by (\1)
MatchNestedParens(s, i) ==
  LET w1 == RunLen(s, i + 1, "\\s")
      j == i + 1 + w1                  \* the second (
      n == RunLen(s, j + 1, "[^()]")
      k == j + 1 + n                   \* the first )
      w2 == RunLen(s, k + 1, "\\s")
  IN IF /\ At(s, i, "(") /\ At(s, j, "(") /\ n >= 1
        /\ At(s, k, ")") /\ At(s, k + 1 + w2, ")")
     THEN [len |-> k + 1 + w2 - i + 1, repl |-> <<"(">> \o SubSeq(s, j + 1, j + n) \o <<")">>]
     ELSE NoMatch

\* line 529 at i: C\s*O\s*S\b (any case) replaced by \cos
MatchCos(s, i) ==
  LET j == i + 1 + RunLen(s, i + 1, "\\s")   \* the o
      k == j + 1 + RunLen(s, j + 1, "\\s")   \* the s
  IN IF /\ AtAnyCase(s, i, "c") /\ AtAnyCase(s, j, "o") /\ AtAnyCase(s, k, "s")
        /\ WordBoundary(s, k + 1)
     THEN [len |-> k - i + 1, repl |-> BackslashCos]
     ELSE NoMatch

\* line 555 at i: \(\s*\\\s*[xX\*]\s*\) replaced by (x)
MatchParenBackslashX(s, i) ==
  LET j == i + 1 + RunLen(s, i + 1, "\\s")   \* the backslash
      k == j + 1 + RunLen(s, j + 1, "\\s")   \* the x
      m == k + 1 + RunLen(s, k + 1, "\\s")   \* the )
  IN IF /\ At(s, i, "(") /\ At(s, j, "\\")
        /\ (At(s, k, "x") \/ At(s, k, "X") \/ At(s, k, "*"))
        /\ At(s, m, ")")
     THEN [len |-> m - i + 1, repl |-> <<"(", "x", ")">>]
     ELSE NoMatch

\* line 581 for func = cos at i: (?<!\\)\bcos\b (any case) replaced by \cos
MatchBareCos(s, i) ==
  IF /\ ~At(s, i - 1, "\\") /\ WordBoundary(s, i)
     /\ AtAnyCase(s, i, "c") /\ AtAnyCase(s, i + 1, "o") /\ AtAnyCase(s, i + 2, "s")
     /\ WordBoundary(s, i + 3)
  THEN [len |-> 3, repl |-> BackslashCos]
  ELSE NoMatch

\* line 613 for func = cos at i: \\cos\s*\{([^{}]+)\} replaced by \cos(\1)
MatchCosBraces(s, i) ==
  LET j == i + 4 + RunLen(s, i + 4, "\\s")   \* the {
      n == RunLen(s, j + 1, "[^{}]")
  IN IF /\ StartsWithAt(s, i, BackslashCos) /\ At(s, j, "{") /\ n >= 1
        /\ At(s, j + 1 + n, "}")
     THEN [len |-> j + 1 + n - i + 1,
           repl |-> BackslashCos \o <<"(">> \o SubSeq(s, j + 1, j + n) \o <<")">>]
     ELSE NoMatch

\* line 616 at i: \{(\\[a-zA-Z]+)\} replaced by \1
MatchBracedCommand(s, i) ==
  LET n == RunLen(s, i + 2, "[a-zA-Z]") IN
    IF /\ At(s, i, "{") /\ At(s, i + 1, "\\") /\ n >= 1 /\ At(s, i + 2 + n, "}")
    THEN [len |-> n + 3, repl |-> SubSeq(s, i + 1, i + 1 + n)]
    ELSE NoMatch

MatchRule(rule, s, i) ==
  CASE rule = "double_brace" -> MatchDoubleBrace(s, i)
    [] rule = "single_brace" -> MatchSingleBrace(s, i)
    [] rule = "nested_parens" -> MatchNestedParens(s, i)
    [] rule = "cos" -> MatchCos(s, i)
    [] rule = "paren_backslash_x" -> MatchParenBackslashX(s, i)
    [] rule = "bare_cos" -> MatchBareCos(s, i)
    [] rule = "cos_braces" -> MatchCosBraces(s, i)
    [] rule = "braced_command" -> MatchBracedCommand(s, i)

\* re.sub of one rule from index i on: the leftmost matches, none overlapping
RECURSIVE SubFrom(_, _, _)
SubFrom(rule, s, i) ==
  IF i > Len(s) THEN <<>>
  ELSE LET m == MatchRule(rule, s, i) IN
    IF m.len > 0 THEN m.repl \o SubFrom(rule, s, i + m.len)
    ELSE <<s[i]>> \o SubFrom(rule, s, i + 1)

Sub(rule, s) == Apply(LAMBDA v : SubFrom(rule, v, 1), s)

\* line 590 for func = cos: four backslashes before cos become two
UnescapeCos(s) ==
  Replace(s, <<"\\", "\\", "\\", "\\", "c", "o", "s">>, <<"\\", "\\", "c", "o", "s">>)

\* lines 516-518: the brace rules
BraceRules(s) == Sub("single_brace", Sub("double_brace", s))

\* lines 529-590: the function-name rules and the noise rule between them
FunctionRules(s) ==
  Apply(UnescapeCos, Sub("bare_cos", Sub("paren_backslash_x", Sub("cos", s))))

\* lines 607-616: nested parentheses three times over, function braces,
\* braced commands
CleanupRules(s) ==
  Sub("braced_command",
      Sub("cos_braces",
          Sub("nested_parens", Sub("nested_parens", Sub("nested_parens", s)))))

\* the rules in the order of the source, and the strip of line 632
heuristic_semantic_correction(latex_str) ==
  Apply(Strip, CleanupRules(FunctionRules(BraceRules(latex_str))))

(***************************************************************************)
(* clean_latex_output (ocr_service.py 301-413).  On the texts of the model *)
(* (no array environment, no styling or operator command, no underscore,   *)
(* no star) the wrapper, garbage, operator and styling steps of lines      *)
(* 314-323 and 352-400 match nothing; the row-break step of lines 327-350  *)
(* is modelled in full.                                                    *)
(***************************************************************************)
\* `p in s` of Python
Contains(s, p) == \E i \in 1..Len(s) : StartsWithAt(s, i, p)

\* the row-break marker of line 327: two backslashes
RowBreak == <<"\\", "\\">>

\* str.split(sep) from index i on, seg being the segment read so far
RECURSIVE SplitFrom(_, _, _, _)
SplitFrom(s, sep, i, seg) ==
  IF i > Len(s) THEN <<seg>>
  ELSE IF StartsWithAt(s, i, sep) THEN <<seg>> \o SplitFrom(s, sep, i + Len(sep), <<>>)
  ELSE SplitFrom(s, sep, i + 1, Append(seg, s[i]))

Split(s, sep) == SplitFrom(s, sep, 1, <<>>)

\* line 328: the trimmed segments that are not blank
RECURSIVE NonBlankStripped(_)
NonBlankStripped(segs) ==
  IF segs = <<>> THEN <<>>
  ELSE (IF Strip(Head(segs)) # <<>> THEN <<Strip(Head(segs))>> ELSE <<>>)
         \o NonBlankStripped(Tail(segs))

\* lines 335-345: the score of a segment
line_score(line) ==
  (IF Contains(line, <<"=">>) \/ Contains(line, <<"\\", "c", "o", "n", "g">>)
     THEN 5 ELSE 0)                                                     \* 336-337
  - (IF Contains(line, <<"\\", "m", "a", "t", "h", "r", "m">>) /\ Len(line) < 20
       THEN 5 ELSE 0)                                                   \* 339-341
  - (IF Len(line) < 3 THEN 5 ELSE 0)                                    \* 344-345

\* the score a segment must beat before any segment is seen (line 332)
initial_max_score == 0 - 1

\* A plausible slip: a later segment replaces an earlier one of equal score.
beats_on_tie(score, max_score) == score >= max_score

\* line 347: whether a segment replaces the best one so far
beats(score, max_score) == score > max_score

\* lines 334-349: the loop from segment k on
RECURSIVE BestFrom(_, _, _, _)
BestFrom(lines, k, best_line, max_score) ==
  IF k > Len(lines) THEN best_line
  ELSE IF beats(line_score(lines[k]), max_score)
    THEN BestFrom(lines, k + 1, lines[k], line_score(lines[k]))
    ELSE BestFrom(lines, k + 1, best_line, max_score)

\* line 328
row_lines(cleaned) == NonBlankStripped(Split(cleaned, RowBreak))

\* lines 327-350
select_best_line(cleaned) ==
  IF Contains(cleaned, RowBreak) /\ row_lines(cleaned) # <<>>
  THEN BestFrom(row_lines(cleaned), 1, row_lines(cleaned)[1], initial_max_score)
  ELSE cleaned

EndsWith(s, p) == Len(p) <= Len(s) /\ SubSeq(s, Len(s) - Len(p) + 1, Len(s)) = p

\* lines 404-405: cleaned[2:-2] when wrapped in {{ }}
UnwrapOuterBraces(cleaned) ==
  IF StartsWithAt(cleaned, 1, <<"{", "{">>) /\ EndsWith(cleaned, <<"}", "}">>)
  THEN SubSeq(cleaned, 3, Len(cleaned) - 2)
  ELSE cleaned

\* lines 309-405: the strip, the row-break step, the outer-brace step
Preclean(latex) ==
  Apply(UnwrapOuterBraces, Apply(select_best_line, Apply(Strip, latex)))

\* lines 306-307, then the steps above, the corrections of line 408, the
\* balancing of line 411 and the strip of line 413
clean_latex_output(latex) ==
  IF latex = <<>> THEN <<>>
  ELSE Apply(Strip,
             Apply(balance_parentheses,
                   Apply(heuristic_semantic_correction, Preclean(latex))))

(***************************************************************************)
(* deep_clean_math (ocr_service.py 680-711).  On the texts of the model    *)
(* the command-stripping steps of lines 690-697 and the digit-joining of   *)
(* lines 707-708 match nothing.                                            *)
(***************************************************************************)
\* line 700: { } [ ] become ( )
BracesToParens(s) ==
  [i \in 1..Len(s) |->
     CASE s[i] \in {"{", "["} -> "("
       [] s[i] \in {"}", "]"} -> ")"
       [] OTHER -> s[i]]

\* line 703: only digits, letters and . + - * / ^ ( ) = and the blank stay
MathChars == Letters \cup Digits \cup {".", "+", "-", "*", "/", "^", "(", ")", "=", " "}

RECURSIVE KeepMathChars(_)
KeepMathChars(s) ==
  IF s = <<>> THEN <<>>
  ELSE (IF Head(s) \in MathChars THEN <<Head(s)>> ELSE <<>>) \o KeepMathChars(Tail(s))

deep_clean_math(text) ==
  Apply(balance_parentheses, Apply(Strip, Apply(KeepMathChars, BracesToParens(text))))

(***************************************************************************)
(* format_sympy_result (ocr_service.py 666-677).  A SymPy expression is a  *)
(* record: str is str(expr); eq says whether it has lhs and rhs.           *)
(***************************************************************************)
\* line 676 at i: _\{?([a-zA-Z0-9]+)\}? replaced by \1
MatchSubscript(s, i) ==
  LET b == IF At(s, i + 1, "{") /\ RunLen(s, i + 2, "[a-zA-Z0-9]") >= 1 THEN 1 ELSE 0
      n == RunLen(s, i + 1 + b, "[a-zA-Z0-9]")
      e == IF At(s, i + 1 + b + n, "}") THEN 1 ELSE 0
  IN IF At(s, i, "_") /\ n >= 1
     THEN [len |-> 1 + b + n + e, repl |-> SubSeq(s, i + 1 + b, i + b + n)]
     ELSE NoMatch

RECURSIVE StripSubscripts(_, _)
StripSubscripts(s, i) ==
  IF i > Len(s) THEN <<>>
  ELSE LET m == MatchSubscript(s, i) IN
    IF m.len > 0 THEN m.repl \o StripSubscripts(s, i + m.len)
    ELSE <<s[i]>> \o StripSubscripts(s, i + 1)

format_sympy_result(expr) ==
  LET canonical == IF expr.eq THEN expr.lhs \o <<" ", "=", " ">> \o expr.rhs  \* 668-669
                   ELSE expr.str                                              \* 671
  IN Apply(LAMBDA v : StripSubscripts(v, 1), Replace(canonical, <<"*", "*">>, <<"^">>))  \* 673-676

(***************************************************************************)
(* estimate_confidence (ocr_service.py 750-778), in thousandths.           *)
(***************************************************************************)
\* a character with ord(c) > 127
NonAscii == {"±"}

\* sum(1 for c in s if c in S)
CountIn(s, S) == Cardinality({i \in 1..Len(s) : s[i] \in S})

Min(a, b) == IF a <= b THEN a ELSE b
Max(a, b) == IF a >= b THEN a ELSE b

estimate_confidence(latex) ==
  LET s0 == 900                                                          \* 755
      s1 == IF Len(latex) < 2 THEN s0 - 300 ELSE s0                      \* 758-759
      s2 == IF Len(latex) > 200 THEN s1 - 200 ELSE s1                    \* 762-763
      unusual_count == CountIn(latex, NonAscii)                          \* 766
      s3 == IF unusual_count * 10 > Len(latex) * 3 THEN s2 - 200 ELSE s2 \* 767-768
      s4 == IF Count(latex, "{") # Count(latex, "}") THEN s3 - 300 ELSE s3  \* 771-772
      s5 == IF Count(latex, "(") # Count(latex, ")") THEN s4 - 200 ELSE s4  \* 775-776
  IN Max(0, Min(1000, s5))                                               \* 778

(***************************************************************************)
(* The collaborators' results.                                             *)
(***************************************************************************)
\* parse_latex or parse_expr raised
ParseError == [error |-> "ParseError"]
\* fallback_validate met an undefined name: the SymPy import of lines 20-30 failed
NameError == [error |-> "NameError"]

\* str(expr) of the SymPy expressions a parser returns in the model; the
\* third is a symbol whose subscript is an expression, the fourth an equation
Exprs ==
  { [str |-> <<"x">>, eq |-> FALSE, lhs |-> None, rhs |-> None],
    [str |-> <<"x", "*", "*", "x">>, eq |-> FALSE, lhs |-> None, rhs |-> None],
    [str |-> <<"x", "_", "{", "x", " ", "+", " ", "x", "}">>, eq |-> FALSE,
     lhs |-> None, rhs |-> None],
    [str |-> <<"E", "q", "(", "x", ",", " ", "x", ")">>, eq |-> TRUE,
     lhs |-> <<"x">>, rhs |-> <<"x">>] }

ParseOutcomes == {ParseError} \cup Exprs

\* the characters of the markup strings of the model
PipeAlphabet == {"(", ")", "{", "}", "x", "^"}

\* what the OCR model returns
OcrOutputs == StringsUpTo(PipeAlphabet, MaxLen)

\* what the standardizer answers when it answers: nothing, a clean expression,
\* an unclosed parenthesis, braces, a power, doubled braces
LLMAnswers ==
  { <<>>, <<"x">>, <<"(", "x">>, <<"{", "x", "}">>, <<"x", "^", "x">>,
    <<"{", "{", "x", "}", "}">> }

\* what the call to the standardizer's server comes to (lines 285-298): the
\* connection refused, the 5 s timeout, an error status (urlopen raises), a
\* status other than 200, a body that is no JSON, JSON that is no object, an
\* object without "response", a "response" that is no string, or an answer
LLMFailures ==
  {"URLError", "timeout", "HTTPError", "status_not_200", "bad_json", "not_object",
   "no_response_key", "response_not_str"}

LLMReplies ==
  {[kind |-> k, text |-> <<>>] : k \in LLMFailures}
    \cup {[kind |-> "ok", text |-> t] : t \in LLMAnswers}

\* the markdown fences of line 293
\* (the backquote is the one character a string of the module cannot hold)
Backquote == "backquote"
Fence == <<Backquote, Backquote, Backquote>>
FencePython == Fence \o <<"p", "y", "t", "h", "o", "n">>

\* A plausible slip: the text of the failure handed back as the answer.
standardize_with_llm_error_text(reply) ==
  IF reply.kind = "ok" THEN reply.text ELSE <<"x">>

\* lines 240-298
standardize_with_llm(reply) ==
  CASE reply.kind = "ok" ->                                             \* 289-294
         Strip(Replace(Replace(Strip(reply.text), FencePython, <<>>), Fence, <<>>))
    [] reply.kind = "no_response_key" -> <<>>                           \* 291: get(..., '')
    [] reply.kind = "status_not_200" -> None                            \* 289: falls through
    [] OTHER -> None                                                    \* 296-298

(***************************************************************************)
(* The pure parts of the handler and of the canonicalizer.                 *)
(***************************************************************************)
\* line 165: signal.alarm(30)
AlarmSeconds == 30

\* no response yet
NoResponse == [status |-> 0]

\* no /health request answered yet
NoHealth == [status |-> "none", service |-> "ocr", model_loaded |-> FALSE, model_error |-> None]

\* lines 781-783
error_response(message, status_code) == [status |-> status_code, error |-> message]

\* line 196: the truth value of llm_standardized
Truthy(s) == s # None /\ s # <<>>

\* A plausible slip: the first attempt made on the cleaned string as it is.
working_latex_unchanged(latex_str) == latex_str

\* lines 645-646: what the first parse attempt is made on
working_latex(latex_str) == Apply(balance_parentheses, heuristic_semantic_correction(latex_str))

\* line 721: what fallback_validate hands to parse_expr
clean_str(expression_str) == Replace(expression_str, <<"^">>, <<"*", "*">>)

\* A plausible slip: a failed parse reported as a validated expression.
fallback_validate_always_ok(expression_str, outcome) ==
  IF outcome \in Exprs
    THEN [canonical |-> Replace(outcome.str, <<"*", "*">>, <<"^">>), ok |-> TRUE,
          raised |-> FALSE]
    ELSE [canonical |-> expression_str, ok |-> TRUE, raised |-> FALSE]

\* A plausible slip: the exception of a failed parse not caught.
fallback_validate_raises(expression_str, outcome) ==
  IF outcome \in Exprs
    THEN [canonical |-> Replace(outcome.str, <<"*", "*">>, <<"^">>), ok |-> TRUE,
          raised |-> FALSE]
    ELSE [canonical |-> expression_str, ok |-> FALSE, raised |-> TRUE]

\* lines 713-747, given what parse_expr did: the pair (canonical, ok) the
\* function returns, and whether an exception left it (none does: line 745
\* catches them all)
fallback_validate(expression_str, outcome) ==
  IF outcome \in Exprs
    THEN [canonical |-> Replace(outcome.str, <<"*", "*">>, <<"^">>), ok |-> TRUE,
          raised |-> FALSE]                                               \* 742-743
    ELSE [canonical |-> expression_str, ok |-> FALSE, raised |-> FALSE]   \* 745-747

\* A plausible slip: the penalty applied whether or not SymPy was imported.
adjust_confidence_always(confidence, validated, sympy_available) ==
  IF validated THEN Min(1000, confidence + 100) ELSE Max(0, confidence - 150)

\* A plausible slip: the clamps of lines 215 and 217 left out.
adjust_confidence_unclamped(confidence, validated, sympy_available) ==
  IF validated THEN confidence + 100
  ELSE IF sympy_available THEN confidence - 150
  ELSE confidence

\* lines 214-217
adjust_confidence(confidence, validated, sympy_available) ==
  IF validated THEN Min(1000, confidence + 100)
  ELSE IF sympy_available THEN Max(0, confidence - 150)
  ELSE confidence

\* A plausible slip: the raw candidate reported without the balancing of line 210.
raw_working_unbalanced(latex_clean) == latex_clean

\* line 210
raw_working(latex_clean) == balance_parentheses(latex_clean)

\* A plausible slip: the heuristic estimate kept for the standardizer's string.
initial_confidence_estimated(llm_standardized, latex_clean) == estimate_confidence(latex_clean)

\* lines 196-203: the confidence before validation
initial_confidence(llm_standardized, latex_clean) ==
  IF Truthy(llm_standardized) THEN 950 ELSE estimate_confidence(latex_clean)

\* lines 219-228
success_response(refined_canonical, raw_canonical, validated, latex_clean, confidence, llm_standardized) ==
  [status |-> 200,
   expression |-> IF validated THEN refined_canonical ELSE raw_canonical,
   latex |-> latex_clean,
   refined_expression |-> refined_canonical,
   raw_expression |-> raw_canonical,
   validated |-> validated,
   confidence |-> confidence,
   llm_used |-> llm_standardized # None]

(***************************************************************************)
(* State.                                                                  *)
(***************************************************************************)
(***************************************************************************)
(* src/PythonBridge/SympyService.py: the values of the SymPy service.      *)
(***************************************************************************)
\* A JSON value of a request: a string (its characters), a number, or no
\* value at all (the key is absent)
Str(text) == [type |-> "str", text |-> text]
Number5 == [type |-> "int", text |-> <<"5">>]
Absent == [type |-> "absent", text |-> <<>>]

\* The body of a request as request.get_json() reads it.  kind is the JSON
\* type ("malformed": no JSON at all); members are the names x for which
\* the Python test  x in data  is true: the keys of an object, the elements
\* of an array, the substrings of a string; number is the value of a number
Body(kind, members, number, expression, variable) ==
  [kind |-> kind, members |-> members, number |-> number,
   expression |-> expression, variable |-> variable]

NoBody == Body("none", {}, 0, Absent, Absent)

\* what safe_sympify and the operation have not given yet
NotParsed == [parsed |-> "not yet", of |-> <<>>]
NoResult == [outcome |-> "not yet", value |-> <<>>]

VARIABLES
  SYMPY_AVAILABLE,   \* lines 20-30: whether the SymPy import succeeded
  _model,            \* line 38
  _model_ready,      \* line 39
  _model_error,      \* line 40
  pc,                \* where the service is: "startup", "idle", and inside
                     \* recognize "ocr", "finally", "llm", "parse_latex", "deep_clean",
                     \* "fallback", "raw_pass", then "done"
  ocr_returned,      \* whether the OCR model returned a non-blank string
                     \* to this request
  latex_result,      \* recognize's local (line 167), None while unbound
  raised,            \* the exception model(image) raised, in flight through
                     \* the finally block of lines 168-170; "none" otherwise
  latex_clean,       \* recognize's local
  llm_standardized,  \* recognize's local
  confidence,        \* recognize's local, in thousandths
  refined_canonical, \* recognize's local
  validated,         \* recognize's local
  attempts,          \* the parser calls of this request, in order
  response,          \* what the request answered
  health,            \* what the last /health request answered
  bal_pc,     \* SpecBalance: "start", "scanned", "removed", "done", "rebalanced"
  bal_text,   \* SpecBalance: the argument of balance_parentheses
  bal_result, \* SpecBalance: the list `result`, then `final_result`
  bal_stack,  \* SpecBalance: `stack`
  bal_remove, \* SpecBalance: `to_remove`
  bal_again,  \* SpecBalance: balance_parentheses of its own result
  conf_pc,        \* SpecConfidence: "start", "estimated", "reported"
  conf_text,      \* SpecConfidence: latex_clean
  conf_llm,       \* SpecConfidence: llm_standardized
  conf_validated, \* SpecConfidence: validated
  conf_value,     \* SpecConfidence: confidence
  alarm,          \* seconds left on the alarm of line 165; 0 when none is armed
  txt_pc,     \* SpecText: "start", then the name of the step applied
  txt_in,     \* SpecText: the argument
  txt_out,    \* SpecText: the result
  txt_again,  \* SpecText: clean_latex_output applied to its own result
  sy_pc,         \* SpecSympy: "idle", "parse", "operate", "done"
  sy_endpoint,   \* SpecSympy: the route of the request
  sy_data,       \* SpecSympy: what request.get_json() gave
  sy_expr,       \* SpecSympy: what safe_sympify returned
  sy_parse_calls,\* SpecSympy: how many times safe_sympify was called
  sy_result,     \* SpecSympy: what the operation returned or raised
  sy_response,   \* SpecSympy: what the request answered
  sig_pc,        \* SpecSignal: the line of recognize the main thread is at
  sig_request,   \* SpecSignal: the number of the request
  sig_before,    \* SpecSignal: the SIGALRM handler installed when the request began
  sig_old,       \* SpecSignal: old_handler (line 164)
  sig_handler,   \* SpecSignal: the SIGALRM handler installed now: 0 is the
                 \* default, n the _timeout_handler of request n
  sig_alarm,     \* SpecSignal: seconds until SIGALRM, 0 when no alarm is pending
  sig_tripped,   \* SpecSignal: SIGALRM has arrived and its handler has not run yet
  sig_outcome    \* SpecSignal: how the model call of the request ended

svc_vars == <<SYMPY_AVAILABLE, _model, _model_ready, _model_error>>
req_vars == <<pc, ocr_returned, latex_result, raised, latex_clean, llm_standardized, confidence,
              refined_canonical, validated, attempts, response, alarm, health>>
bal_vars == <<bal_pc, bal_text, bal_result, bal_stack, bal_remove, bal_again>>
conf_vars == <<conf_pc, conf_text, conf_llm, conf_validated, conf_value>>

txt_vars == <<txt_pc, txt_in, txt_out, txt_again>>
sy_vars == <<sy_pc, sy_endpoint, sy_data, sy_expr, sy_parse_calls, sy_result, sy_response>>
sig_vars == <<sig_pc, sig_request, sig_before, sig_old, sig_handler, sig_alarm, sig_tripped,
              sig_outcome>>

vars == <<svc_vars, req_vars, bal_vars, conf_vars, txt_vars, sy_vars, sig_vars>>

\* the state of the parts a specification does not run
ReqOff ==
  /\ pc = "off" /\ ocr_returned = FALSE /\ latex_clean = None
  /\ latex_result = None /\ raised = "none"
  /\ llm_standardized = None /\ confidence = 0 /\ refined_canonical = None
  /\ validated = FALSE /\ attempts = <<>> /\ response = NoResponse
  /\ alarm = 0 /\ health = NoHealth
BalOff ==
  /\ bal_pc = "off" /\ bal_text = <<>> /\ bal_result = <<>>
  /\ bal_stack = <<>> /\ bal_remove = <<>> /\ bal_again = <<>>
ConfOff ==
  /\ conf_pc = "off" /\ conf_text = <<>> /\ conf_llm = None
  /\ conf_validated = FALSE /\ conf_value = 0
TxtOff ==
  /\ txt_pc = "off" /\ txt_in = <<>> /\ txt_out = <<>> /\ txt_again = <<>>
SyOff ==
  /\ sy_pc = "off" /\ sy_endpoint = "none" /\ sy_data = NoBody /\ sy_expr = NotParsed
  /\ sy_parse_calls = 0 /\ sy_result = NoResult /\ sy_response = NoResponse
SigOff ==
  /\ sig_pc = "off" /\ sig_request = 0 /\ sig_before = 0 /\ sig_old = 0 /\ sig_handler = 0
  /\ sig_alarm = 0 /\ sig_tripped = FALSE /\ sig_outcome = "none"

(***************************************************************************)
(* Spec: the service.  One request is handled at a time (line 799 runs the *)
(* server with threaded=False).  The handler is cut at its calls to the    *)
(* collaborators: the OCR model, the standardizer and the two parsers.     *)
(***************************************************************************)
Init ==
  /\ SYMPY_AVAILABLE \in BOOLEAN
  /\ _model = None
  /\ _model_ready = FALSE
  /\ _model_error = None
  /\ pc = "startup"
  /\ ocr_returned = FALSE
  /\ latex_result = None
  /\ raised = "none"
  /\ latex_clean = None
  /\ llm_standardized = None
  /\ confidence = 0
  /\ refined_canonical = None
  /\ validated = FALSE
  /\ attempts = <<>>
  /\ response = NoResponse
  /\ alarm = 0
  /\ health = NoHealth
  /\ BalOff
  /\ ConfOff
  /\ TxtOff
  /\ SyOff
  /\ SigOff

\* lines 42-56 and 795: the model is loaded, or the load fails
load_model ==
  /\ pc = "startup"
  /\ \E loaded \in {"ok", "ImportError", "Exception"} :
       /\ _model' = IF loaded = "ok" THEN <<"LatexOCR">> ELSE None
       /\ _model_ready' = (loaded = "ok")
       /\ _model_error' = IF loaded = "ok" THEN None ELSE <<loaded>>
  /\ pc' = "idle"
  /\ UNCHANGED <<SYMPY_AVAILABLE, ocr_returned, latex_result, raised, latex_clean, llm_standardized,
                 confidence, refined_canonical, validated, attempts, response, alarm,
                 health>>
  /\ UNCHANGED <<bal_vars, conf_vars, txt_vars, sy_vars, sig_vars>>

\* A plausible slip: the status 'ok' whatever the state of the model.
health_status_always_ok(model_ready) == "ok"

\* line 110: 'ok' if _model_ready else 'loading'
health_status(model_ready) == IF model_ready THEN "ok" ELSE "loading"

\* lines 106-114: the server is up only after load_model has run (lines
\* 795-799) and answers one request at a time
Health ==
  /\ pc = "idle"
  /\ health' = [status |-> health_status(_model_ready), service |-> "ocr",
                model_loaded |-> _model_ready, model_error |-> _model_error]
  /\ UNCHANGED <<svc_vars, pc, latex_result, raised, ocr_returned, latex_clean, llm_standardized, confidence,
                 refined_canonical, validated, attempts, response, alarm>>
  /\ UNCHANGED <<bal_vars, conf_vars, txt_vars, sy_vars, sig_vars>>

\* the request ends with response r
Respond(r) ==
  /\ response' = r
  /\ pc' = "done"

\* lines 136-165: the request is read, the image decoded and prepared, the
\* model fetched; body says what the request holds
RecognizeBegin ==
  /\ pc = "idle"
  /\ \E body \in {"malformed", "no_image", "bad_image", "bad_mode", "image"} :
       CASE body = "malformed" -> Respond(error_response("Internal error", 500))  \* 137, 235-237
         [] body = "no_image" -> Respond(error_response("Missing 'image' field", 400))  \* 138-139
         [] body = "bad_image" -> Respond(error_response("Invalid image data", 400))    \* 144-148
         [] body = "bad_mode" -> Respond(error_response("Image preprocessing failed", 400))  \* 151-154
         [] body = "image" ->
              IF ~_model_ready
                THEN Respond(error_response("OCR model not ready", 503))  \* 60-61, 173-174
                ELSE pc' = "ocr" /\ UNCHANGED response                    \* 164-167
  /\ alarm' = IF pc' = "ocr" THEN AlarmSeconds ELSE 0                     \* 165
  /\ UNCHANGED <<svc_vars, health, latex_result, raised, ocr_returned, latex_clean, llm_standardized, confidence,
                 refined_canonical, validated, attempts>>
  /\ UNCHANGED <<bal_vars, conf_vars, txt_vars, sy_vars, sig_vars>>

\* line 167: model(image) raises, the exception is in flight and the finally
\* block of lines 168-170 is entered; when the alarm has run out during the
\* call the signal is still waiting for its handler
ModelRaises ==
  /\ pc = "ocr"
  /\ \E e \in {"TimeoutError", "RuntimeError", "cv2.error", "Exception"} : raised' = e
  /\ pc' = "finally"
  /\ UNCHANGED <<svc_vars, health, ocr_returned, latex_result, latex_clean, llm_standardized,
                 confidence, refined_canonical, validated, attempts, response, alarm>>
  /\ UNCHANGED <<bal_vars, conf_vars, txt_vars, sy_vars, sig_vars>>

\* A plausible slip: the alarm never armed to run down.
alarm_never_runs_down(seconds_left) == seconds_left

\* line 165: a second of the alarm's 30 passes
alarm_after_a_second(seconds_left) == seconds_left - 1

\* lines 165-169: a second passes while model(image) is running, or after it
\* has ended and before line 169 has cancelled the alarm
AlarmTick ==
  /\ pc \in {"ocr", "finally"}
  /\ alarm > 0
  /\ alarm' = alarm_after_a_second(alarm)
  /\ UNCHANGED <<svc_vars, health, latex_result, raised, pc, ocr_returned, latex_clean,
                 llm_standardized, confidence, refined_canonical, validated, attempts,
                 response>>
  /\ UNCHANGED <<bal_vars, conf_vars, txt_vars, sy_vars, sig_vars>>

\* lines 161-162 and 171-172: the alarm has gone off and the interpreter runs
\* _timeout_handler in the main thread (line 799); it raises TimeoutError,
\* answered 504.  While line 167 is running this happens inside model(image)
\* or as the call returns, before latex_result is bound: the call may have
\* returned a text that is lost.  After line 167 it happens inside the
\* finally block, and the TimeoutError replaces the result or the exception
\* of the model.
AlarmFires ==
  /\ pc \in {"ocr", "finally"}
  /\ alarm = 0
  /\ Respond(error_response("OCR recognition timed out (>30s)", 504))
  /\ IF pc = "ocr"
       THEN \E returned \in BOOLEAN : ocr_returned' = returned
       ELSE UNCHANGED ocr_returned
  /\ UNCHANGED <<svc_vars, health, latex_result, raised, latex_clean, llm_standardized,
                 confidence, refined_canonical, validated, attempts, alarm>>
  /\ UNCHANGED <<bal_vars, conf_vars, txt_vars, sy_vars, sig_vars>>

\* line 167: model(image) returns before the alarm runs out and latex_result
\* is bound; the finally block of lines 168-170 is entered
ModelReturns ==
  /\ pc = "ocr"
  /\ alarm > 0
  /\ \E result \in OcrOutputs :
       /\ latex_result' = result
       /\ ocr_returned' = ~(result = <<>> \/ Len(Strip(result)) = 0)
  /\ pc' = "finally"
  /\ UNCHANGED <<svc_vars, health, raised, latex_clean, llm_standardized, confidence,
                 refined_canonical, validated, attempts, response, alarm>>
  /\ UNCHANGED <<bal_vars, conf_vars, txt_vars, sy_vars, sig_vars>>

\* lines 168-189: the alarm is cancelled before it has run out and the
\* handler restored; an exception of the model is answered by its class, a
\* blank result ends the request, any other is cleaned and handed to the
\* standardizer
CancelAlarm ==
  /\ pc = "finally"
  /\ alarm > 0
  /\ alarm' = 0                                                        \* 169
  /\ CASE raised = "TimeoutError" ->                                   \* 171-172
            Respond(error_response("timed out", 504)) /\ UNCHANGED latex_clean
       [] raised = "RuntimeError" ->                                   \* 173-174
            Respond(error_response("OCR model not ready", 503)) /\ UNCHANGED latex_clean
       [] raised = "cv2.error" ->                                      \* 175-180
            Respond(error_response("OCR image processing error", 500)) /\ UNCHANGED latex_clean
       [] raised = "Exception" ->                                      \* 181
            Respond(error_response("OCR recognition failed", 500)) /\ UNCHANGED latex_clean
       [] OTHER ->
            IF latex_result = <<>> \/ Len(Strip(latex_result)) = 0     \* 185-186
              THEN /\ Respond(error_response("No equation detected in image", 400))
                   /\ UNCHANGED latex_clean
              ELSE /\ latex_clean' = clean_latex_output(latex_result)  \* 189
                   /\ pc' = "llm"
                   /\ UNCHANGED response
  /\ UNCHANGED <<svc_vars, health, ocr_returned, latex_result, raised, llm_standardized,
                 confidence, refined_canonical, validated, attempts>>
  /\ UNCHANGED <<bal_vars, conf_vars, txt_vars, sy_vars, sig_vars>>

\* lines 193-206 and 640-646: the standardizer answers (None when it fails),
\* the candidate and its confidence are chosen, and validate_and_canonicalize
\* starts; without SymPy it is fallback_validate alone, which fails on the
\* undefined names
Standardize ==
  /\ pc = "llm"
  /\ \E reply \in LLMReplies :
     \E answer \in {standardize_with_llm(reply)} :                       \* 193
       LET candidate == IF Truthy(answer) THEN answer ELSE latex_clean  \* 196-198
       IN
         /\ llm_standardized' = answer
         /\ latex_clean' = candidate
         /\ confidence' = initial_confidence(answer, latex_clean)
         /\ IF SYMPY_AVAILABLE
              THEN /\ pc' = "parse_latex"
                   /\ UNCHANGED <<refined_canonical, validated>>
              ELSE LET r == fallback_validate(candidate, NameError) IN      \* 640-641
                   /\ refined_canonical' = r.canonical
                   /\ validated' = r.ok
                   /\ IF r.raised
                        THEN Respond(error_response("Internal error", 500))
                        ELSE pc' = "raw_pass" /\ UNCHANGED response
         /\ SYMPY_AVAILABLE => UNCHANGED response
  /\ UNCHANGED <<svc_vars, health, latex_result, raised, ocr_returned, attempts, alarm>>
  /\ UNCHANGED <<bal_vars, conf_vars, txt_vars, sy_vars, sig_vars>>

\* a parser is a function of its input: what it did with a string once in
\* this request it does again
Consistent(parser, input, outcome) ==
  \A k \in 1..Len(attempts) :
    (attempts[k].parser = parser /\ attempts[k].input = input)
      => attempts[k].outcome = outcome

Attempt(tier, parser, input, outcome) ==
  [tier |-> tier, parser |-> parser, input |-> input, outcome |-> outcome]

\* A plausible slip: the deep-clean tier skipped after the first failure.
after_parse_latex_failed_skip == "fallback"

\* lines 651-655: where a failed parse_latex leads
after_parse_latex_failed == "deep_clean"

\* lines 648-652: the first tier, parse_latex on the corrected and balanced
\* candidate
ParseLatexTier ==
  /\ pc = "parse_latex"
  /\ \E input \in {working_latex(latex_clean)}, outcome \in ParseOutcomes :
       /\ Consistent("parse_latex", input, outcome)
       /\ attempts' = Append(attempts, Attempt("heuristic", "parse_latex", input, outcome))
       /\ IF outcome \in Exprs
            THEN /\ refined_canonical' = format_sympy_result(outcome)   \* 650
                 /\ validated' = TRUE
                 /\ pc' = "raw_pass"
            ELSE /\ pc' = after_parse_latex_failed                      \* 651-652
                 /\ UNCHANGED <<refined_canonical, validated>>
  /\ UNCHANGED <<svc_vars, health, latex_result, raised, ocr_returned, latex_clean, llm_standardized, confidence,
                 response, alarm>>
  /\ UNCHANGED <<bal_vars, conf_vars, txt_vars, sy_vars, sig_vars>>

\* lines 655-661: the second tier, parse_expr on the deep-cleaned candidate
DeepCleanTier ==
  /\ pc = "deep_clean"
  /\ \E deep_latex \in {deep_clean_math(latex_clean)} :
     \E input \in {clean_str(deep_latex)}, outcome \in ParseOutcomes :
       /\ Consistent("parse_expr", input, outcome)
       /\ attempts' = Append(attempts, Attempt("deep-clean", "parse_expr", input, outcome))
       /\ LET r == fallback_validate(deep_latex, outcome) IN
            IF r.ok /\ ~r.raised
              THEN /\ refined_canonical' = r.canonical                  \* 659
                   /\ validated' = TRUE
                   /\ pc' = "raw_pass"
              ELSE /\ pc' = "fallback"                                  \* 660-661
                   /\ UNCHANGED <<refined_canonical, validated>>
  /\ UNCHANGED <<svc_vars, health, latex_result, raised, ocr_returned, latex_clean, llm_standardized, confidence,
                 response, alarm>>
  /\ UNCHANGED <<bal_vars, conf_vars, txt_vars, sy_vars, sig_vars>>

\* line 663: the last tier, parse_expr on the candidate itself
FallbackTier ==
  /\ pc = "fallback"
  /\ \E input \in {clean_str(latex_clean)}, outcome \in ParseOutcomes :
       /\ Consistent("parse_expr", input, outcome)
       /\ attempts' = Append(attempts, Attempt("raw-fallback", "parse_expr", input, outcome))
       /\ LET r == fallback_validate(latex_clean, outcome) IN
            /\ refined_canonical' = r.canonical
            /\ validated' = r.ok
            /\ IF r.raised
                 THEN Respond(error_response("Internal error", 500))    \* 235-237
                 ELSE pc' = "raw_pass" /\ UNCHANGED response
  /\ UNCHANGED <<svc_vars, health, latex_result, raised, ocr_returned, latex_clean, llm_standardized, confidence, alarm>>
  /\ UNCHANGED <<bal_vars, conf_vars, txt_vars, sy_vars, sig_vars>>

\* lines 210-233: the raw pass (parse_expr on the balanced candidate, when
\* SymPy is there), the confidence adjusted, the response
RawPass ==
  /\ pc = "raw_pass"
  /\ \E raw \in {raw_working(latex_clean)} :
     \E input \in {clean_str(raw)},
        outcome \in (IF SYMPY_AVAILABLE THEN ParseOutcomes ELSE {NameError}) :
       /\ SYMPY_AVAILABLE => Consistent("parse_expr", input, outcome)
       /\ attempts' = IF SYMPY_AVAILABLE
                        THEN Append(attempts, Attempt("raw-pass", "parse_expr", input, outcome))
                        ELSE attempts
       /\ LET r == fallback_validate(raw, outcome)                      \* 211
              adjusted == adjust_confidence(confidence, validated, SYMPY_AVAILABLE)
          IN IF r.raised
               THEN /\ Respond(error_response("Internal error", 500))  \* 235-237
                    /\ UNCHANGED confidence
               ELSE /\ confidence' = adjusted
                    /\ Respond(success_response(refined_canonical, r.canonical,
                                  validated, latex_clean, adjusted, llm_standardized))
  /\ UNCHANGED <<svc_vars, health, latex_result, raised, ocr_returned, latex_clean, llm_standardized,
                 refined_canonical, validated, alarm>>
  /\ UNCHANGED <<bal_vars, conf_vars, txt_vars, sy_vars, sig_vars>>

\* the handler has returned; the server waits for the next request
NextRequest ==
  /\ pc = "done"
  /\ pc' = "idle"
  /\ ocr_returned' = FALSE
  /\ latex_clean' = None
  /\ llm_standardized' = None
  /\ confidence' = 0
  /\ refined_canonical' = None
  /\ validated' = FALSE
  /\ attempts' = <<>>
  /\ response' = NoResponse
  /\ latex_result' = None
  /\ raised' = "none"
  /\ alarm' = 0
  /\ UNCHANGED <<svc_vars, health, bal_vars, conf_vars, txt_vars, sy_vars, sig_vars>>

Next ==
  \/ load_model
  \/ Health
  \/ RecognizeBegin
  \/ ModelRaises
  \/ AlarmTick
  \/ AlarmFires
  \/ ModelReturns
  \/ CancelAlarm
  \/ Standardize
  \/ ParseLatexTier
  \/ DeepCleanTier
  \/ FallbackTier
  \/ RawPass
  \/ NextRequest

Spec == Init /\ [][Next]_vars

\* SpecLive: the service with the progress its scheduling gives.  The server
\* handles a request in the main thread (line 799), so the handler's own
\* steps are taken: the finally block and what follows the model call, and
\* the tiers of the canonicalizer (the parsers are taken to return).  Time
\* passes, so an armed alarm runs down.  Nothing is assumed of the two calls
\* that can last: model(image) may never return, and while it is inside one
\* native call the interpreter does not run _timeout_handler (it runs Python
\* handlers between bytecodes of the main thread only); the standardizer
\* call is bounded by timeout=5 (line 288) per wait on the socket, not as a
\* whole, and lasts as long as the peer keeps sending.  Both conditions are
\* written on the control state (under Spec a step that satisfies them is a
\* step of the handler's actions), so that they do not depend on the
\* collaborators' outcomes.
HandlerRuns ==
  /\ pc \in {"finally", "parse_latex", "deep_clean", "fallback", "raw_pass"}
  /\ pc' \in {"llm", "parse_latex", "deep_clean", "fallback", "raw_pass", "done"}
  /\ pc' # pc
  /\ alarm' \in {alarm, 0}

AlarmRuns ==
  /\ pc \in {"ocr", "finally"}
  /\ alarm > 0
  /\ alarm' = alarm_after_a_second(alarm)
  /\ pc' = pc

SpecLive == Spec /\ WF_<<pc, alarm>>(HandlerRuns) /\ WF_<<pc, alarm>>(AlarmRuns)

(***************************************************************************)
(* SpecBalance: balance_parentheses run pass by pass on every text over    *)
(* the bracket alphabet up to MaxBalLen.                                   *)
(***************************************************************************)
BalAlphabet == {"(", ")", "[", "]", "{", "}", "x"}

BalInit ==
  /\ bal_pc = "start"
  /\ bal_text \in StringsUpTo(BalAlphabet, MaxBalLen)
  /\ bal_result = bal_text
  /\ bal_stack = <<>>
  /\ bal_remove = <<>>
  /\ bal_again = <<>>
  /\ SYMPY_AVAILABLE = TRUE /\ _model = None /\ _model_ready = FALSE /\ _model_error = None
  /\ ReqOff
  /\ ConfOff
  /\ TxtOff
  /\ SyOff
  /\ SigOff

\* lines 422-423: the empty text is returned as it is
BalEmpty ==
  /\ bal_pc = "start"
  /\ bal_text = <<>>
  /\ bal_pc' = "done"
  /\ UNCHANGED <<bal_text, bal_result, bal_stack, bal_remove, bal_again>>
  /\ UNCHANGED <<svc_vars, req_vars, conf_vars, txt_vars, sy_vars, sig_vars>>

\* lines 425-439: pass 1
BalPass1 ==
  /\ bal_pc = "start"
  /\ bal_text # <<>>
  /\ LET r == ScanBrackets(bal_text, 1, <<>>, <<>>) IN
       /\ bal_stack' = r.stack
       /\ bal_remove' = r.to_remove
  /\ bal_pc' = "scanned"
  /\ UNCHANGED <<bal_text, bal_result, bal_again>>
  /\ UNCHANGED <<svc_vars, req_vars, conf_vars, txt_vars, sy_vars, sig_vars>>

\* lines 442-443 and 449-450
BalRemove ==
  /\ bal_pc = "scanned"
  /\ bal_result' = RemoveOrphans(bal_result, bal_remove)
  /\ bal_stack' = <<>>
  /\ bal_pc' = "removed"
  /\ UNCHANGED <<bal_text, bal_remove, bal_again>>
  /\ UNCHANGED <<svc_vars, req_vars, conf_vars, txt_vars, sy_vars, sig_vars>>

\* lines 451-463: pass 2 and the closers appended
BalPass2 ==
  /\ bal_pc = "removed"
  /\ LET r == ScanBrackets(bal_result, 1, <<>>, <<>>) IN
       /\ bal_stack' = r.stack
       /\ bal_result' = bal_result \o MissingClosers(r.stack)
  /\ bal_pc' = "done"
  /\ UNCHANGED <<bal_text, bal_remove, bal_again>>
  /\ UNCHANGED <<svc_vars, req_vars, conf_vars, txt_vars, sy_vars, sig_vars>>

\* balance_parentheses called on its own result
BalAgain ==
  /\ bal_pc = "done"
  /\ bal_again' = balance_parentheses(bal_result)
  /\ bal_pc' = "rebalanced"
  /\ UNCHANGED <<bal_text, bal_result, bal_stack, bal_remove>>
  /\ UNCHANGED <<svc_vars, req_vars, conf_vars, txt_vars, sy_vars, sig_vars>>

BalNext == BalEmpty \/ BalPass1 \/ BalRemove \/ BalPass2 \/ BalAgain

SpecBalance == BalInit /\ [][BalNext]_vars

(***************************************************************************)
(* SpecConfidence: the confidence of lines 196-217 on texts of every mix   *)
(* of penalty conditions, for either origin of the candidate and either    *)
(* validation outcome.                                                     *)
(***************************************************************************)
Repeat(c, n) == [i \in 1..n |-> c]

ConfAlphabet == {"(", ")", "{", "}", "x", "±"}

\* a short text, or a long run of one character followed by a short text
ConfTexts ==
  { pad \o t : pad \in {<<>>, Repeat("x", LongPad), Repeat("±", LongPad)},
               t \in StringsUpTo(ConfAlphabet, MaxProbeLen) }

ConfInit ==
  /\ conf_pc = "start"
  /\ conf_text \in ConfTexts
  /\ conf_llm \in {None, <<>>, <<"x">>}
  /\ conf_validated \in BOOLEAN
  /\ conf_value = 0
  /\ SYMPY_AVAILABLE \in BOOLEAN /\ _model = None /\ _model_ready = FALSE /\ _model_error = None
  /\ ReqOff
  /\ BalOff
  /\ TxtOff
  /\ SyOff
  /\ SigOff

\* lines 196-203
ConfEstimate ==
  /\ conf_pc = "start"
  /\ conf_value' = initial_confidence(conf_llm, conf_text)
  /\ conf_pc' = "estimated"
  /\ UNCHANGED <<conf_text, conf_llm, conf_validated>>
  /\ UNCHANGED <<svc_vars, req_vars, bal_vars, txt_vars, sy_vars, sig_vars>>

\* lines 214-217
ConfAdjust ==
  /\ conf_pc = "estimated"
  /\ conf_value' = adjust_confidence(conf_value, conf_validated, SYMPY_AVAILABLE)
  /\ conf_pc' = "reported"
  /\ UNCHANGED <<conf_text, conf_llm, conf_validated>>
  /\ UNCHANGED <<svc_vars, req_vars, bal_vars, txt_vars, sy_vars, sig_vars>>

ConfNext == ConfEstimate \/ ConfAdjust

SpecConfidence == ConfInit /\ [][ConfNext]_vars

(***************************************************************************)
(* What the claims speak of.                                               *)
(***************************************************************************)
\* the request ended with a recognition response (HTTP 200)
Recognized == pc = "done" /\ response.status = 200

Accepted(a) == a.outcome \in Exprs

\* the attempts of validate_and_canonicalize: all but the raw pass of line 211
CanonAttempts == {k \in 1..Len(attempts) : attempts[k].tier # "raw-pass"}

\* the tiers of validate_and_canonicalize in the order of the source
TierName(k) ==
  CASE k = 1 -> "heuristic" [] k = 2 -> "deep-clean" [] k = 3 -> "raw-fallback"
    [] OTHER -> "raw-pass"

\* equal numbers of opening and closing delimiters of each kind
CountsBalanced(s) ==
  /\ Count(s, "(") = Count(s, ")")
  /\ Count(s, "[") = Count(s, "]")
  /\ Count(s, "{") = Count(s, "}")

\* every closer closes the most recent unclosed opener, and no opener is
\* left unclosed; open is the string of the unclosed openers
RECURSIVE NestedFrom(_, _)
NestedFrom(s, open) ==
  IF s = <<>> THEN open = <<>>
  ELSE LET c == Head(s) IN
    IF c \in {"(", "[", "{"} THEN NestedFrom(Tail(s), Append(open, c))
    ELSE IF c \in {")", "]", "}"}
      THEN /\ open # <<>>
           /\ <<open[Len(open)], c>> \in {<<"(", ")">>, <<"[", "]">>, <<"{", "}">>}
           /\ NestedFrom(Tail(s), SubSeq(open, 1, Len(open) - 1))
    ELSE NestedFrom(Tail(s), open)

ProperlyNested(s) == NestedFrom(s, <<>>)

\* the confidence before the validation adjustment (lines 196-203), from
\* what the response shows
PreValidation ==
  IF response.llm_used /\ llm_standardized # <<>> THEN 950
  ELSE estimate_confidence(response.latex)

(***************************************************************************)
(* SpecText: the text functions applied to every text of at most MaxPieces *)
(* pieces, to the named texts, and the row selection applied to every text *)
(* of at most MaxRows rows.                                                *)
(***************************************************************************)
TextPieces ==
  {<<"\\">>, <<"c", "o", "s">>, <<"x">>, <<"{">>, <<"}">>, <<"(">>, <<")">>, <<"^">>}

\* the concatenations of at most n pieces
RECURSIVE PieceTexts(_)
PieceTexts(n) ==
  IF n = 0 THEN {<<>>}
  ELSE PieceTexts(n - 1) \cup {t \o q : t \in PieceTexts(n - 1), q \in TextPieces}

\* \frac{27}{128}, the fraction of src/verify_ocr_fix.py
Fraction ==
  <<"\\", "f", "r", "a", "c", "{", "2", "7", "}", "{", "1", "2", "8", "}">>

\* {{a}}+{{b}}
TwoGroups == <<"{", "{", "a", "}", "}", "+", "{", "{", "b", "}", "}">>

NamedTexts == {Fraction, TwoGroups}

\* \mathrm{T}, a short text annotation
ShortNote == <<"\\", "m", "a", "t", "h", "r", "m", "{", "T", "}">>

\* the rows of a text with row breaks: an equation, a bare term, two short
\* rows, a short annotation with and without an equality sign, an
\* annotation of 20 characters, a blank row
RowSegments ==
  { <<"x", "=", "x">>, <<"x", "x", "x">>, <<"x">>, <<"=">>,
    ShortNote, ShortNote \o <<"=", "x">>, ShortNote \o ShortNote, <<" ">> }

RECURSIVE RowTextsOf(_)
RowTextsOf(n) ==
  IF n = 1 THEN RowSegments
  ELSE RowTextsOf(n - 1)
         \cup {t \o RowBreak \o q : t \in RowTextsOf(n - 1), q \in RowSegments}

\* the texts with at least one row break
RowTexts == {t \in RowTextsOf(MaxRows) : Contains(t, RowBreak)}

TxtInit ==
  /\ txt_pc = "start"
  /\ txt_in \in PieceTexts(MaxPieces) \cup NamedTexts \cup RowTexts
  /\ txt_out = <<>>
  /\ txt_again = <<>>
  /\ SYMPY_AVAILABLE = TRUE /\ _model = None /\ _model_ready = FALSE /\ _model_error = None
  /\ ReqOff
  /\ BalOff
  /\ ConfOff
  /\ SyOff
  /\ SigOff

\* line 189: clean_latex_output(latex_result)
TxtClean ==
  /\ txt_pc = "start"
  /\ txt_in \notin RowTexts
  /\ txt_out' = clean_latex_output(txt_in)
  /\ txt_pc' = "cleaned"
  /\ UNCHANGED <<txt_in, txt_again>>
  /\ UNCHANGED <<svc_vars, req_vars, bal_vars, conf_vars, sy_vars, sig_vars>>

\* clean_latex_output applied to its own result
TxtCleanAgain ==
  /\ txt_pc = "cleaned"
  /\ txt_again' = clean_latex_output(txt_out)
  /\ txt_pc' = "recleaned"
  /\ UNCHANGED <<txt_in, txt_out>>
  /\ UNCHANGED <<svc_vars, req_vars, bal_vars, conf_vars, sy_vars, sig_vars>>

\* lines 408 and 645: heuristic_semantic_correction(cleaned)
TxtCorrect ==
  /\ txt_pc = "start"
  /\ txt_in \notin RowTexts
  /\ txt_out' = heuristic_semantic_correction(txt_in)
  /\ txt_pc' = "corrected"
  /\ UNCHANGED <<txt_in, txt_again>>
  /\ UNCHANGED <<svc_vars, req_vars, bal_vars, conf_vars, sy_vars, sig_vars>>

\* lines 404-405: the outer-brace step
TxtUnwrap ==
  /\ txt_pc = "start"
  /\ txt_in \notin RowTexts
  /\ txt_out' = UnwrapOuterBraces(txt_in)
  /\ txt_pc' = "unwrapped"
  /\ UNCHANGED <<txt_in, txt_again>>
  /\ UNCHANGED <<svc_vars, req_vars, bal_vars, conf_vars, sy_vars, sig_vars>>

\* lines 327-350: the row-break step
TxtSelect ==
  /\ txt_pc = "start"
  /\ txt_in \in RowTexts
  /\ txt_out' = select_best_line(txt_in)
  /\ txt_pc' = "selected"
  /\ UNCHANGED <<txt_in, txt_again>>
  /\ UNCHANGED <<svc_vars, req_vars, bal_vars, conf_vars, sy_vars, sig_vars>>

TxtNext == TxtClean \/ TxtCleanAgain \/ TxtCorrect \/ TxtUnwrap \/ TxtSelect

SpecText == TxtInit /\ [][TxtNext]_vars

(***************************************************************************)
(* SpecSympy: src/PythonBridge/SympyService.py, one request after another  *)
(* to the six operation endpoints.                                         *)
(***************************************************************************)
SyEndpoints == {"simplify", "solve", "differentiate", "integrate", "evaluate", "verify"}

\* the endpoints that read data.get('variable', 'x'): lines 95, 121, 146
ReadsVariable(endpoint) == endpoint \in {"solve", "differentiate", "integrate"}

\* expressions of src/PythonBridge/test_verification.py and test_service.py,
\* two written with ^, the bare name of a function of local_dict (line 27),
\* which parse_expr accepts and returns as the function itself, no
\* expression, and three that do not parse
XPlusY == <<"x", "+", "y">>
Cancels == <<"x", "+", "x", "-", "2", "*", "x">>
Pythagoras ==
  <<"s", "i", "n", "(", "x", ")", "*", "*", "2", "+",
    "c", "o", "s", "(", "x", ")", "*", "*", "2", "-", "1">>
CaretSquare == <<"x", "^", "2">>
CaretCancels == <<"x", "^", "2", "-", "x", "*", "x">>
BareFunction == <<"s", "i", "n">>
SyTexts ==
  {XPlusY, Cancels, Pythagoras, CaretSquare, CaretCancels, BareFunction,
   <<"(">>, <<"x", "+">>, <<>>}

\* what parse_expr accepts of these, after ^ has become **
ParseableTexts ==
  {XPlusY, Cancels, Pythagoras, <<"x", "*", "*", "2">>, <<"x", "*", "*", "2", "-", "x", "*", "x">>,
   BareFunction}

\* the ones parse_expr returns as an object that is no expression
NonExpressions == {BareFunction}

\* the ones that simplify to zero
ZeroTexts == {Cancels, Pythagoras, <<"x", "*", "*", "2", "-", "x", "*", "x">>}

InvalidExpression == [parsed |-> "ValueError", of |-> <<>>]
Parsed(text) == [parsed |-> "ok", of |-> text]

\* lines 22-43: a value that is no string has no replace, and that error too
\* becomes ValueError; ^ is rewritten to ** before parse_expr
safe_sympify(expression_str) ==
  IF expression_str.type # "str" THEN InvalidExpression
  ELSE LET text == Replace(expression_str.text, <<"^">>, <<"*", "*">>)
       IN IF text \in ParseableTexts THEN Parsed(text) ELSE InvalidExpression

Zero == [outcome |-> "returned", value |-> <<"0">>]
Returned(op, text) == [outcome |-> "returned", value |-> <<op>> \o text]
RaisedTypeError == [outcome |-> "TypeError", value |-> <<>>]
RaisedValueError == [outcome |-> "ValueError", value |-> <<>>]

\* What an operation of SymPy may do with a parsed object that is no
\* expression: the library is a collaborator, it returns some result or
\* raises, a ValueError or an error of another class.
OnNonExpression(op, expr) == {Returned(op, expr.of), RaisedValueError, RaisedTypeError}

\* simplify(expr), lines 75, 171, 199: the outcomes it can have.  It returns
\* on the expressions of the repository's tests, zero for the identities; on
\* an object that is no expression it may raise.
simplify(expr) ==
  IF expr.of \in NonExpressions THEN OnNonExpression("simplify", expr)
  ELSE IF expr.of \in ZeroTexts THEN {Zero} ELSE {Returned("simplify", expr.of)}

\* lines 96-100, 121-125, 146-150: Symbol(variable) raises TypeError for a
\* name that is no string; the default of the variable is 'x'
operate_on_variable(op, expr, variable) ==
  IF variable.type = "int" THEN {RaisedTypeError}
  ELSE IF expr.of \in NonExpressions THEN OnNonExpression(op, expr)
  ELSE {Returned(op, expr.of \o <<",">> \o (IF variable.type = "absent" THEN <<"x">> ELSE variable.text))}

\* the operation of each route: the outcomes it can have
operate(endpoint, expr, variable) ==
  IF ReadsVariable(endpoint) THEN operate_on_variable(endpoint, expr, variable)
  ELSE simplify(expr)

\* A plausible slip: every identity verified.
is_verified_always(result) == TRUE

\* line 203: is_verified = result == 0
is_verified(result) == result = Zero

\* lines 45-53 and 207-212: the answer of an operation that returned
create_response(endpoint, result) ==
  IF endpoint = "verify"
    THEN [status |-> 200, result |-> result.value, verified |-> is_verified(result)]
    ELSE [status |-> 200, result |-> result.value]

\* the bodies a client sends
SyVariables == {Absent, Str(<<"x">>), Number5}
SyObjects ==
  {Body("object", {}, 0, Absent, Absent), Body("object", {"variable"}, 0, Absent, Str(<<"x">>))}
    \cup {Body("object", {"expression"} \cup (IF v = Absent THEN {} ELSE {"variable"}), 0, e, v) :
             e \in {Str(t) : t \in SyTexts} \cup {Number5}, v \in SyVariables}
SyBodies ==
  SyObjects \cup
  { Body("malformed", {}, 0, Absent, Absent), Body("null", {}, 0, Absent, Absent),
    Body("array", {}, 0, Absent, Absent), Body("array", {"expression"}, 0, Absent, Absent),
    Body("string", {}, 0, Absent, Absent), Body("string", {"expression"}, 0, Absent, Absent),
    Body("number", {}, 0, Absent, Absent), Body("number", {}, 5, Absent, Absent) }

\* Python's  not data
Falsy(data) ==
  \/ data.kind = "null"
  \/ data.kind \in {"object", "array", "string"} /\ data.members = {}
  \/ data.kind = "number" /\ data.number = 0

SyInit ==
  /\ sy_pc = "idle" /\ sy_endpoint = "none" /\ sy_data = NoBody /\ sy_expr = NotParsed
  /\ sy_parse_calls = 0 /\ sy_result = NoResult /\ sy_response = NoResponse
  /\ SYMPY_AVAILABLE = TRUE /\ _model = None /\ _model_ready = FALSE /\ _model_error = None
  /\ ReqOff
  /\ BalOff
  /\ ConfOff
  /\ TxtOff
  /\ SigOff

SyRespond(r) ==
  /\ sy_response' = r
  /\ sy_pc' = "done"

\* lines 69-71 (and the same lines of the other endpoints): get_json raises
\* on a body that is no JSON;  'expression' in data  raises TypeError on a
\* number; both are caught by  except Exception
SyBegin ==
  /\ sy_pc = "idle"
  /\ \E endpoint \in SyEndpoints, data \in SyBodies :
       /\ sy_endpoint' = endpoint
       /\ sy_data' = data
       /\ IF data.kind = "malformed"
            THEN SyRespond(error_response("Internal error: 400 Bad Request", 500))
            ELSE IF Falsy(data)
              THEN SyRespond(error_response("Missing expression field", 400))
              ELSE IF data.kind = "number"
                THEN SyRespond(error_response("Internal error: argument of type 'int' is not iterable", 500))
                ELSE IF "expression" \notin data.members
                  THEN SyRespond(error_response("Missing expression field", 400))
                  ELSE /\ sy_pc' = "parse"
                       /\ UNCHANGED sy_response
  /\ UNCHANGED <<sy_expr, sy_parse_calls, sy_result>>
  /\ UNCHANGED <<svc_vars, req_vars, bal_vars, conf_vars, txt_vars, sig_vars>>

\* line 73: data['expression'] raises TypeError on an array and on a string,
\* caught by  except Exception;  safe_sympify's ValueError is answered 400
SyParse ==
  /\ sy_pc = "parse"
  /\ IF sy_data.kind # "object"
       THEN /\ SyRespond(error_response("Internal error: indices must be integers", 500))
            /\ UNCHANGED <<sy_expr, sy_parse_calls>>
       ELSE LET expr == safe_sympify(sy_data.expression) IN
              /\ sy_parse_calls' = sy_parse_calls + 1
              /\ sy_expr' = expr
              /\ IF expr = InvalidExpression
                   THEN SyRespond(error_response("Invalid expression", 400))
                   ELSE /\ sy_pc' = "operate"
                        /\ UNCHANGED sy_response
  /\ UNCHANGED <<sy_endpoint, sy_data, sy_result>>
  /\ UNCHANGED <<svc_vars, req_vars, bal_vars, conf_vars, txt_vars, sig_vars>>

\* lines 75-83 (199-218 for /verify): the operation and the response, all
\* inside the try; a ValueError of the operation is answered 400 like one of
\* the parser, an error of any other class 500
SyOperate ==
  /\ sy_pc = "operate"
  /\ \E result \in operate(sy_endpoint, sy_expr, sy_data.variable) :
       /\ sy_result' = result
       /\ CASE result.outcome = "returned" ->
                 SyRespond(create_response(sy_endpoint, result))
            [] result.outcome = "ValueError" ->
                 SyRespond(error_response("ValueError of the operation", 400))
            [] OTHER ->
                 SyRespond(error_response("Internal error: the operation raised", 500))
  /\ UNCHANGED <<sy_endpoint, sy_data, sy_expr, sy_parse_calls>>
  /\ UNCHANGED <<svc_vars, req_vars, bal_vars, conf_vars, txt_vars, sig_vars>>

\* the next request starts afresh
SyNextRequest ==
  /\ sy_pc = "done"
  /\ sy_pc' = "idle" /\ sy_endpoint' = "none" /\ sy_data' = NoBody /\ sy_expr' = NotParsed
  /\ sy_parse_calls' = 0 /\ sy_result' = NoResult /\ sy_response' = NoResponse
  /\ UNCHANGED <<svc_vars, req_vars, bal_vars, conf_vars, txt_vars, sig_vars>>

SyNext == SyBegin \/ SyParse \/ SyOperate \/ SyNextRequest

SpecSympy == SyInit /\ [][SyNext]_vars

(***************************************************************************)
(* C1.  As claimed: in every recognition response, validated = true        *)
(* implies that a parser accepted exactly the string reported as           *)
(* `expression`.                                                           *)
(***************************************************************************)
C1_ExpressionIsTheParsedString ==
  (Recognized /\ response.validated) =>
    \E k \in 1..Len(attempts) :
      Accepted(attempts[k]) /\ attempts[k].input = response.expression

(***************************************************************************)
(* C1, amended.  In every recognition response, validated = true implies   *)
(* that exactly one attempt of the canonicalizer was accepted, the last    *)
(* one, that what it parsed is derived from `latex` as its tier derives it,*)
(* and that `expression` is the rendering of the parser's result (lhs =    *)
(* rhs or str, ** written ^, and for the structured parser the subscript   *)
(* markers stripped), not the string that was parsed.                      *)
(***************************************************************************)
C1_ValidatedExpressionIsRendering ==
  (Recognized /\ response.validated) =>
    /\ CanonAttempts # {}
    /\ \A k \in CanonAttempts :
         Accepted(attempts[k]) <=> (k = Cardinality(CanonAttempts))
    /\ LET a == attempts[Cardinality(CanonAttempts)] IN
         CASE a.tier = "heuristic" ->
                /\ a.parser = "parse_latex"
                /\ a.input = balance_parentheses(heuristic_semantic_correction(response.latex))
                /\ response.expression =
                     StripSubscripts(
                       Replace(IF a.outcome.eq
                                 THEN a.outcome.lhs \o <<" ", "=", " ">> \o a.outcome.rhs
                                 ELSE a.outcome.str,
                               <<"*", "*">>, <<"^">>), 1)
           [] a.tier = "deep-clean" ->
                /\ a.parser = "parse_expr"
                /\ a.input = Replace(deep_clean_math(response.latex), <<"^">>, <<"*", "*">>)
                /\ response.expression = Replace(a.outcome.str, <<"*", "*">>, <<"^">>)
           [] a.tier = "raw-fallback" ->
                /\ a.parser = "parse_expr"
                /\ a.input = Replace(response.latex, <<"^">>, <<"*", "*">>)
                /\ response.expression = Replace(a.outcome.str, <<"*", "*">>, <<"^">>)

\* a validated response whose expression is not the string that was parsed
C1_Witness ==
  /\ Recognized /\ response.validated
  /\ \E k \in CanonAttempts :
       Accepted(attempts[k]) /\ attempts[k].input # response.expression

(***************************************************************************)
(* C2.  As claimed: in every recognition response the `expression` has     *)
(* balanced brackets (as many opening as closing delimiters of each kind). *)
(***************************************************************************)
C2_ExpressionBalanced == Recognized => CountsBalanced(response.expression)

(***************************************************************************)
(* C3.  As claimed: within one request the tiers are attempted in a fixed  *)
(* order, each at most once, no parse attempt is made after one has        *)
(* succeeded, and exactly one terminal result is reached.                  *)
(***************************************************************************)
C3_NoAttemptAfterSuccess ==
  /\ \A k \in 1..Len(attempts) : attempts[k].tier = TierName(k) \/ attempts[k].tier = "raw-pass"
  /\ \A i, j \in 1..Len(attempts) : i < j => ~Accepted(attempts[i])
  /\ (response # NoResponse) <=> (pc = "done")

(***************************************************************************)
(* C3, amended.  Within validate_and_canonicalize the three tiers          *)
(* (structured parse of the corrected string, generic parse of the         *)
(* deep-cleaned string, generic parse of the string itself) are attempted  *)
(* in that order, each at most once, and none after one has succeeded;     *)
(* recognize then makes one more parse attempt, the raw pass on the        *)
(* balanced string, whether or not a tier has succeeded; the request       *)
(* reaches exactly one terminal result.                                    *)
(***************************************************************************)
C3_TiersInOrderThenRawPass ==
  LET n == Cardinality(CanonAttempts) IN
    /\ n <= 3
    /\ \A k \in 1..Len(attempts) :
         attempts[k].tier = (IF k <= n THEN TierName(k) ELSE "raw-pass")
    /\ \A k \in 1..n : k < n => ~Accepted(attempts[k])
    /\ Len(attempts) <= n + 1
    /\ (Len(attempts) = n + 1) <=> (SYMPY_AVAILABLE /\ Recognized)
    /\ pc = "parse_latex" => n = 0
    /\ pc = "deep_clean" => n = 1 /\ ~Accepted(attempts[1])
    /\ pc = "fallback" => n = 2 /\ ~Accepted(attempts[2])
    /\ (pc = "raw_pass" \/ Recognized) =>
         /\ SYMPY_AVAILABLE => n >= 1 /\ (validated <=> Accepted(attempts[n]))
         /\ (SYMPY_AVAILABLE /\ ~validated) => n = 3
         /\ ~SYMPY_AVAILABLE => n = 0 /\ ~validated
    /\ (response # NoResponse) <=> (pc = "done")

\* the first tier succeeded and the raw pass still parsed
C3_Witness ==
  /\ Recognized
  /\ Len(attempts) = 2
  /\ Accepted(attempts[1])
  /\ attempts[2].tier = "raw-pass"

(***************************************************************************)
(* C4.  As claimed: the first parse attempt hands the cleaned string to    *)
(* the structured parser unchanged.                                        *)
(***************************************************************************)
C4_FirstAttemptOnCleanedString ==
  attempts # <<>> =>
    attempts[1].parser = "parse_latex" /\ attempts[1].input = latex_clean

(***************************************************************************)
(* C4, amended.  The first parse attempt hands the structured parser the   *)
(* cleaned string after heuristic_semantic_correction and                  *)
(* balance_parentheses have been applied to it; the cleaned string         *)
(* reaches the structured parser unchanged only when the two leave it      *)
(* alone, and no other attempt is made with the structured parser.         *)
(***************************************************************************)
C4_FirstAttemptOnCorrectedString ==
  /\ attempts # <<>> =>
       /\ attempts[1].parser = "parse_latex"
       /\ attempts[1].input = balance_parentheses(heuristic_semantic_correction(latex_clean))
  /\ \A k \in 1..Len(attempts) : attempts[k].parser = "parse_latex" => k = 1

\* the structured parser was handed something else than the cleaned string
C4_Witness ==
  /\ attempts # <<>>
  /\ attempts[1].parser = "parse_latex"
  /\ attempts[1].input # latex_clean

(***************************************************************************)
(* C5.  As claimed: whenever a recognition response has validated = false, *)
(* its `expression` is exactly its `latex`.                                *)
(***************************************************************************)
C5_UnvalidatedExpressionIsLatex ==
  (Recognized /\ ~response.validated) => response.expression = response.latex

(***************************************************************************)
(* C5, amended.  Whenever a recognition response has validated = false,    *)
(* its `expression` is the result of the raw pass on                       *)
(* balance_parentheses(latex): that balanced string when the generic       *)
(* parser rejects it or is not there, the rendering of the parser's result *)
(* when it accepts it.  It is `latex` itself whenever `latex` is properly  *)
(* nested, so whenever the standardizer gave no result or an empty one.    *)
(***************************************************************************)
C5_UnvalidatedExpressionIsRawPass ==
  (Recognized /\ ~response.validated) =>
    LET raw == {k \in 1..Len(attempts) : attempts[k].tier = "raw-pass"} IN
      /\ response.expression = response.raw_expression
      /\ (\A k \in raw : ~Accepted(attempts[k])) =>
           response.expression = balance_parentheses(response.latex)
      /\ \A k \in raw : Accepted(attempts[k]) =>
           response.expression = Replace(attempts[k].outcome.str, <<"*", "*">>, <<"^">>)
      /\ ProperlyNested(response.latex) => response.expression = response.latex
      /\ (llm_standardized \in {None, <<>>}) => ProperlyNested(response.latex)

\* an unvalidated response whose expression is the balanced string, not latex
C5_Witness ==
  /\ Recognized /\ ~response.validated
  /\ response.expression = balance_parentheses(response.latex)
  /\ response.expression # response.latex

(***************************************************************************)
(* C6.  Once the OCR model has returned a non-blank string the request     *)
(* ends with a 200 response that carries a validated flag, whatever the    *)
(* parsers and the standardizer do: no error response is produced.         *)
(* Refuted: the alarm of line 165 can go off after model(image) has        *)
(* returned and before line 169 cancels it, and the request answers 504.   *)
(***************************************************************************)
C6_RecognizedAlways200 ==
  ocr_returned =>
    /\ response.status \in {0, 200}
    /\ pc = "done" => (response.status = 200 /\ response.validated \in BOOLEAN)

\* the part of C6 that the code keeps: once the timeout block has been left
\* with a non-blank string (line 189), no outcome of the parsers or of the
\* standardizer turns the request into an error
C6_NoParserFailureBecomesAnError ==
  /\ pc \in {"llm", "parse_latex", "deep_clean", "fallback", "raw_pass"} =>
       response = NoResponse
  /\ (pc = "done" /\ latex_clean # None) =>
       (response.status = 200 /\ response.validated \in BOOLEAN)

\* every parse attempt failed and the request still answered 200
C6_Witness ==
  /\ Recognized /\ ocr_returned /\ ~response.validated
  /\ Len(attempts) = 4
  /\ \A k \in 1..4 : ~Accepted(attempts[k])

(***************************************************************************)
(* C7.  For every input, the output of balance_parentheses has as many     *)
(* opening as closing delimiters of each of the three kinds.               *)
(***************************************************************************)
C7_OutputCountsBalanced == bal_pc = "done" => CountsBalanced(bal_result)

\* the interleaved input ([)] has been balanced
C7_Witness ==
  /\ bal_pc = "done"
  /\ bal_text = <<"(", "[", ")", "]">>
  /\ bal_result # bal_text

(***************************************************************************)
(* C8.  As claimed: an input with as many opening as closing delimiters of *)
(* each kind is returned unchanged.                                        *)
(***************************************************************************)
C8_CountBalancedUnchanged ==
  (bal_pc = "done" /\ CountsBalanced(bal_text)) => bal_result = bal_text

(***************************************************************************)
(* C8, amended.  An input that is properly nested (every closer closes the *)
(* most recent unclosed opener and no opener is left unclosed) is returned *)
(* unchanged.  Equal counts are not enough: )( becomes () and ([)] becomes *)
(* ([]).                                                                   *)
(***************************************************************************)
C8_ProperlyNestedUnchanged ==
  (bal_pc = "done" /\ ProperlyNested(bal_text)) => bal_result = bal_text

\* a properly nested input with two pairs of brackets has been balanced
C8_Witness ==
  /\ bal_pc = "done"
  /\ ProperlyNested(bal_text)
  /\ Count(bal_text, "(") + Count(bal_text, "[") + Count(bal_text, "{") = 2

(***************************************************************************)
(* C9.  The confidence reported lies in [0, 1] (0..1000 thousandths), for  *)
(* every text, whether or not the standardizer supplied the candidate, and *)
(* for either validation outcome.                                          *)
(***************************************************************************)
C9_ConfidenceInUnitInterval ==
  /\ conf_pc = "estimated" => (conf_value >= 0 /\ conf_value <= 1000)
  /\ conf_pc = "reported" => (conf_value >= 0 /\ conf_value <= 1000)

\* a text on which every penalty that can apply together applies (long,
\* mostly non-ASCII, unequal braces, unequal parentheses), not validated
C9_Witness ==
  /\ conf_pc = "reported"
  /\ ~Truthy(conf_llm) /\ ~conf_validated /\ SYMPY_AVAILABLE
  /\ Len(conf_text) > 200
  /\ estimate_confidence(conf_text) = 0
  /\ conf_value = 0

(***************************************************************************)
(* C10.  As claimed: the reported confidence is min(1.0, c + 0.1) when     *)
(* validated and max(0.0, c - 0.15) whenever not, in every configuration.  *)
(***************************************************************************)
C10_AlwaysAdjusted ==
  Recognized =>
    response.confidence =
      (IF response.validated THEN Min(1000, PreValidation + 100)
       ELSE Max(0, PreValidation - 150))

(***************************************************************************)
(* C10, amended.  The reported confidence is min(1.0, c + 0.1) when        *)
(* validated, max(0.0, c - 0.15) when not validated and the SymPy import   *)
(* succeeded, and c itself when the SymPy import failed (nothing is then   *)
(* validated and no penalty is applied).                                   *)
(***************************************************************************)
C10_AdjustedWhenSympyAvailable ==
  Recognized =>
    /\ response.confidence =
         (IF response.validated THEN Min(1000, PreValidation + 100)
          ELSE IF SYMPY_AVAILABLE THEN Max(0, PreValidation - 150)
          ELSE PreValidation)
    /\ ~SYMPY_AVAILABLE => ~response.validated

\* without SymPy the response is not validated and carries c unchanged
C10_Witness ==
  /\ Recognized /\ ~SYMPY_AVAILABLE /\ ~response.validated
  /\ response.confidence = PreValidation
  /\ response.confidence # Max(0, PreValidation - 150)

(***************************************************************************)
(* C11.  A failure of the standardizer (connection error, timeout, error   *)
(* status, status other than 200, malformed reply, no result) never fails  *)
(* the request: standardize_with_llm gives no result instead of raising,   *)
(* and the request goes on to the canonicalizer with the cleaned string as *)
(* the candidate and the heuristic estimate as its confidence.             *)
(***************************************************************************)
C11_StandardizerFailureIsNoResult ==
  [][pc = "llm" =>
       /\ \A r \in LLMReplies :
            r.kind \in LLMFailures => ~Truthy(standardize_with_llm(r))
       /\ pc' \in {"parse_latex", "raw_pass"}
       /\ response' = NoResponse
       /\ ~Truthy(llm_standardized') =>
            /\ latex_clean' = latex_clean
            /\ confidence' = estimate_confidence(latex_clean)]_vars

\* the standardizer failed and the canonicalizer is about to run on the
\* cleaned string with the heuristic confidence
C11_Witness ==
  /\ pc = "parse_latex"
  /\ llm_standardized = None
  /\ latex_clean # None
  /\ confidence = estimate_confidence(latex_clean)
  /\ confidence < 950

(***************************************************************************)
(* C12.  As claimed: every failure class of recognize has its own status,  *)
(* an error raised by the model invocation itself while the model is ready *)
(* is a 500 whatever its class, so a 503 is answered only when the model   *)
(* is not ready and a 504 only when the timeout fired.                     *)
(***************************************************************************)
C12_StatusTellsTheFailureClass ==
  pc = "done" =>
    /\ response.status = 503 => ~_model_ready
    /\ response.status = 504 =>
         response = error_response("OCR recognition timed out (>30s)", 504)

(***************************************************************************)
(* C13.  Every recognize request eventually produces a response; when      *)
(* model(image) has not returned within the 30 seconds of the alarm the    *)
(* invocation is cut off and the request ends with the 504 timeout error.  *)
(* Refuted: _timeout_handler runs only when the interpreter is between     *)
(* bytecodes of the main thread, so a model(image) that stays inside one   *)
(* native call is not cut off, and the standardizer call of line 288 lasts *)
(* as long as its peer keeps sending.                                      *)
(***************************************************************************)
C13_RequestEndsOrTimesOut ==
  /\ (pc \in {"ocr", "llm", "parse_latex", "deep_clean", "fallback", "raw_pass"})
       ~> (pc = "done" /\ response # NoResponse)
  /\ (pc = "ocr" /\ alarm = 0)
       ~> (pc = "done" /\ response = error_response("OCR recognition timed out (>30s)", 504))

\* the part of C13 that the code keeps: the handler's own steps end, either
\* in the standardizer call or in a response
C13_HandlerStepsEnd ==
  (pc \in {"finally", "parse_latex", "deep_clean", "fallback", "raw_pass"})
    ~> (pc = "llm" \/ (pc = "done" /\ response # NoResponse))

\* the alarm ran down and the request ended with the timeout error
C13_Witness ==
  /\ pc = "done"
  /\ alarm = 0
  /\ response = error_response("OCR recognition timed out (>30s)", 504)

(***************************************************************************)
(* C14.  As claimed: clean_latex_output is idempotent on its own output,   *)
(* for every input without row-break markers or wrapper environments.      *)
(***************************************************************************)
C14_CleanIdempotent ==
  (txt_pc = "recleaned" /\ ~Contains(txt_in, RowBreak)) => txt_again = txt_out

(***************************************************************************)
(* C17.  When the text has row-break markers, the segment selected among   *)
(* the non-blank trimmed segments has the maximum score over all segments  *)
(* and is the first of those with the maximum score, for every combination *)
(* of scores, all negative included.                                       *)
(***************************************************************************)
C17_SelectsFirstMaximum ==
  (txt_pc = "selected" /\ row_lines(txt_in) # <<>>) =>
    LET lines == row_lines(txt_in) IN
      \E k \in 1..Len(lines) :
        /\ txt_out = lines[k]
        /\ \A j \in 1..Len(lines) : line_score(lines[j]) <= line_score(lines[k])
        /\ \A j \in 1..(k - 1) : line_score(lines[j]) < line_score(lines[k])

\* two rows or more that all score negative, the first of them selected
C17_Witness ==
  /\ txt_pc = "selected"
  /\ LET lines == row_lines(txt_in) IN
       /\ Len(lines) >= 2
       /\ \A j \in 1..Len(lines) : line_score(lines[j]) < 0
       /\ lines[1] # lines[2]
       /\ txt_out = lines[1]

(***************************************************************************)
(* C18.  As claimed: a brace group whose opening brace follows a command   *)
(* is not converted to parentheses; the brace arguments of \frac{27}{128}  *)
(* are left as braces by heuristic_semantic_correction.                    *)
(***************************************************************************)
C18_CommandArgumentsKeepBraces ==
  (txt_pc = "corrected" /\ txt_in = Fraction) => txt_out = Fraction

\* every occurrence of cos in s carries exactly one backslash
EscapedOnce(s) ==
  \A i \in 1..Len(s) :
    StartsWithAt(s, i, <<"c", "o", "s">>) => (At(s, i - 1, "\\") /\ ~At(s, i - 2, "\\"))

(***************************************************************************)
(* C19.  As claimed: a function name that is already escaped in the input  *)
(* of heuristic_semantic_correction still carries exactly one escape       *)
(* prefix in its output.                                                   *)
(***************************************************************************)
C19_EscapedNameKeepsOnePrefix ==
  (txt_pc = "corrected" /\ txt_in \in PieceTexts(MaxPieces) /\ EscapedOnce(txt_in))
    => EscapedOnce(txt_out)

\* s is wrapped in a doubled pair of braces that spans all of it: the first
\* two characters are opening braces closed by the last two
RECURSIVE BraceDepths(_, _, _)
BraceDepths(s, i, depth) ==
  IF i > Len(s) THEN <<>>
  ELSE LET d == CASE s[i] = "{" -> depth + 1 [] s[i] = "}" -> depth - 1 [] OTHER -> depth
       IN <<d>> \o BraceDepths(s, i + 1, d)

SpanningDoubledPair(s) ==
  /\ Len(s) >= 4
  /\ StartsWithAt(s, 1, <<"{", "{">>) /\ EndsWith(s, <<"}", "}">>)
  /\ LET d == BraceDepths(s, 1, 0) IN
       /\ \A i \in 2..(Len(s) - 2) : d[i] >= 2
       /\ d[Len(s)] = 0

(***************************************************************************)
(* C20.  As claimed: the outer-brace step removes exactly one level of     *)
(* braces, and only when the doubled outer braces are matching pairs that  *)
(* span the whole string; any other string is left unchanged.              *)
(***************************************************************************)
C20_UnwrapsOneSpanningLevel ==
  txt_pc = "unwrapped" =>
    txt_out = (IF SpanningDoubledPair(txt_in)
                 THEN SubSeq(txt_in, 2, Len(txt_in) - 1)
                 ELSE txt_in)

\* the request body is a JSON object with an expression field
HasExpressionField(data) == data.kind = "object" /\ "expression" \in data.members

(***************************************************************************)
(* C15.  As claimed: each operation endpoint answers 400 when the request  *)
(* body has no expression field, without calling the parser, 400 when the  *)
(* expression fails to parse, 500 when the operation raises, and 200 with  *)
(* a result otherwise.                                                     *)
(***************************************************************************)
C15_StatusTellsTheOutcome ==
  sy_pc = "done" =>
    IF ~HasExpressionField(sy_data)
      THEN sy_response.status = 400 /\ sy_parse_calls = 0
      ELSE IF sy_expr = InvalidExpression
        THEN sy_response.status = 400
        ELSE IF sy_result.outcome # "returned"
          THEN sy_response.status = 500
          ELSE sy_response.status = 200

(***************************************************************************)
(* C16.  As claimed: for every expression that parses, /verify answers     *)
(* 200, with verified true exactly when the simplified expression is zero  *)
(* and false when it is not.  Refuted: simplify runs inside the try of     *)
(* lines 190-218 and what it raises on a parsed object is answered 400 or  *)
(* 500.                                                                    *)
(***************************************************************************)
C16_VerifiedIffSimplifiesToZero ==
  (sy_pc = "done" /\ sy_endpoint = "verify" /\ sy_expr.parsed = "ok") =>
    /\ sy_response.status = 200
    /\ sy_response.verified = (sy_result = Zero)

(***************************************************************************)
(* C16, amended.  For every expression that parses and on which simplify   *)
(* returns, /verify answers 200 with the simplified expression as result   *)
(* and verified true exactly when that result is zero; when simplify       *)
(* raises, the answer is 400 for a ValueError and 500 for any other error. *)
(* The identities of test_verification.py are verified, x + y is not.      *)
(***************************************************************************)
C16_VerifiedIffSimplifiedIsZeroWhenSimplifyReturns ==
  (sy_pc = "done" /\ sy_endpoint = "verify" /\ sy_expr.parsed = "ok") =>
    /\ CASE sy_result.outcome = "returned" ->
              /\ sy_response.status = 200
              /\ sy_response.result = sy_result.value
              /\ sy_response.verified = (sy_result.value = <<"0">>)
         [] sy_result.outcome = "ValueError" -> sy_response.status = 400
         [] OTHER -> sy_response.status = 500
    /\ sy_expr.of \in {Cancels, Pythagoras} => (sy_response.status = 200 /\ sy_response.verified)
    /\ sy_expr.of = XPlusY => (sy_response.status = 200 /\ ~sy_response.verified)

\* /verify has answered an identity written with ^ that holds
C16_Witness ==
  /\ sy_pc = "done" /\ sy_endpoint = "verify"
  /\ sy_data.expression = Str(CaretCancels)
  /\ sy_result = Zero
  /\ sy_response.status = 200 /\ sy_response.verified

\* the closers of the openers in open, last opened first
RECURSIVE ClosersOf(_)
ClosersOf(open) ==
  IF open = <<>> THEN <<>>
  ELSE <<CASE open[Len(open)] = "(" -> ")" [] open[Len(open)] = "[" -> "]" [] OTHER -> "}">>
         \o ClosersOf(SubSeq(open, 1, Len(open) - 1))

\* s read from left to right with open the unclosed openers so far: a closer
\* that does not match the most recent unclosed opener is an orphan and is
\* deleted, everything else is kept, and at the very end the closers of the
\* openers left unclosed are appended
RECURSIVE Repaired(_, _)
Repaired(s, open) ==
  IF s = <<>> THEN ClosersOf(open)
  ELSE LET c == Head(s) IN
    IF c \in {"(", "[", "{"} THEN <<c>> \o Repaired(Tail(s), Append(open, c))
    ELSE IF c \in {")", "]", "}"}
      THEN IF /\ open # <<>>
              /\ <<open[Len(open)], c>> \in {<<"(", ")">>, <<"[", "]">>, <<"{", "}">>}
             THEN <<c>> \o Repaired(Tail(s), SubSeq(open, 1, Len(open) - 1))
             ELSE Repaired(Tail(s), open)
    ELSE <<c>> \o Repaired(Tail(s), open)

NotACloser(c) == c \notin {")", "]", "}"}

(***************************************************************************)
(* C21.  For every input, the output of balance_parentheses is properly    *)
(* nested; it is the input with only the orphan closers deleted and, at    *)
(* the very end, the closers of the unmatched openers appended in reverse  *)
(* order of opening; the openers and the other characters are the input's, *)
(* in the input's order; and balancing the output again changes nothing.   *)
(***************************************************************************)
C21_BalancedByDeletingOrphansAndClosing ==
  /\ bal_pc \in {"done", "rebalanced"} =>
       /\ ProperlyNested(bal_result)
       /\ bal_result = Repaired(bal_text, <<>>)
       /\ SelectSeq(bal_result, NotACloser) = SelectSeq(bal_text, NotACloser)
  /\ bal_pc = "rebalanced" => bal_again = bal_result

\* an orphan closer deleted, two openers closed at the end, last opened
\* first, and the result balanced again
C21_Witness ==
  /\ bal_pc = "rebalanced"
  /\ bal_text = <<")", "(", "[", "x">>
  /\ bal_result = <<"(", "[", "x", "]", ")">>
  /\ bal_again = bal_result

(***************************************************************************)
(* C22.  As claimed: when the standardizer supplied the candidate, the     *)
(* confidence before validation is 0.95 whatever the text, and the         *)
(* reported confidence is 1.0 if validated and 0.8 if not; when it did     *)
(* not, the confidence before validation is estimate_confidence of the     *)
(* cleaned text.                                                           *)
(***************************************************************************)
C22_TrustScoreThenOneOrPointEight ==
  /\ conf_pc = "estimated" =>
       conf_value = (IF Truthy(conf_llm) THEN 950 ELSE estimate_confidence(conf_text))
  /\ (conf_pc = "reported" /\ Truthy(conf_llm)) =>
       conf_value = (IF conf_validated THEN 1000 ELSE 800)

(***************************************************************************)
(* C22, amended.  When the standardizer supplied the candidate, the        *)
(* confidence before validation is 0.95 whatever the text, and the         *)
(* reported confidence is 1.0 if validated, 0.8 if not validated and the   *)
(* SymPy import succeeded, and 0.95 if the SymPy import failed; when the   *)
(* standardizer did not, the confidence before validation is               *)
(* estimate_confidence of the cleaned text.                                *)
(***************************************************************************)
C22_TrustScoreAdjustedWhenSympyAvailable ==
  /\ conf_pc = "estimated" =>
       conf_value = (IF Truthy(conf_llm) THEN 950 ELSE estimate_confidence(conf_text))
  /\ (conf_pc = "reported" /\ Truthy(conf_llm)) =>
       conf_value = (IF conf_validated THEN 1000
                     ELSE IF SYMPY_AVAILABLE THEN 800
                     ELSE 950)

\* the standardizer's candidate reported without SymPy: 0.95, although the
\* cleaned text alone would have scored less than the base score
C22_Witness ==
  /\ conf_pc = "reported"
  /\ Truthy(conf_llm) /\ ~conf_validated /\ ~SYMPY_AVAILABLE
  /\ estimate_confidence(conf_text) < 900
  /\ conf_value = 950

(***************************************************************************)
(* C23.  As claimed: in every recognition response llm_used is true        *)
(* exactly when the standardizer's answer was substituted as the primary   *)
(* candidate (the answer is a result, and the latex field is that string), *)
(* for every standardizer result, none and the empty string included.      *)
(***************************************************************************)
C23_LlmUsedIffSubstituted ==
  Recognized =>
    (response.llm_used <=> (Truthy(llm_standardized) /\ response.latex = llm_standardized))

(***************************************************************************)
(* C24.  The model state (_model, _model_ready, _model_error) is written   *)
(* only by load_model at startup: no step of a /health or /recognize       *)
(* request, whatever its outcome, changes any of the three; and /health    *)
(* reports the status 'ok' exactly when _model_ready is true.              *)
(***************************************************************************)
C24_ModelStateWrittenOnlyAtStartup ==
  /\ [][pc # "startup" => UNCHANGED <<_model, _model_ready, _model_error>>]_vars
  /\ [][pc' # "startup"]_vars
  /\ [](health # NoHealth =>
          /\ health.status = "ok" <=> _model_ready
          /\ health.model_loaded = _model_ready
          /\ health.model_error = _model_error)

\* the model failed to load, a recognition was refused and /health answered
C24_Witness ==
  /\ pc = "done" /\ response.status = 503
  /\ health.status = "loading"
  /\ ~_model_ready /\ _model = None /\ _model_error # None

(***************************************************************************)
(* The timeout of recognize, line by line (lines 157-172): the SIGALRM     *)
(* handler, the alarm, and the moments at which the handler of an arrived  *)
(* signal can run in the main thread.                                      *)
(***************************************************************************)
MaxRequests == 2

\* lines 161-162 and the try blocks of lines 157-172: where control goes when
\* _timeout_handler raises TimeoutError while the main thread is at `at'.
\* Only the call of line 167 is inside the inner try, so only there does the
\* finally of lines 168-170 run; after the calls of lines 165 and 169 line
\* 171 catches at once.
_timeout_handler(at) == IF at = "model" THEN "finally" ELSE "responded"

SigInit ==
  /\ sig_pc = "idle" /\ sig_request = 0 /\ sig_before = 0 /\ sig_old = 0 /\ sig_handler = 0
  /\ sig_alarm = 0 /\ sig_tripped = FALSE /\ sig_outcome = "none"
  /\ SYMPY_AVAILABLE = TRUE
  /\ \E loaded \in {"ok", "ImportError", "Exception"} :                  \* 42-56, 795
       /\ _model = IF loaded = "ok" THEN <<"LatexOCR">> ELSE None
       /\ _model_ready = (loaded = "ok")
       /\ _model_error = IF loaded = "ok" THEN None ELSE <<loaded>>
  /\ ReqOff
  /\ BalOff
  /\ ConfOff
  /\ TxtOff
  /\ SyOff

\* lines 117-118: a request enters recognize
SigBegin ==
  /\ sig_pc \in {"idle", "responded"}
  /\ sig_request < MaxRequests
  /\ ~sig_tripped
  /\ sig_pc' = "entered"
  /\ sig_request' = sig_request + 1
  /\ sig_before' = sig_handler
  /\ sig_old' = 0
  /\ sig_outcome' = "none"
  /\ UNCHANGED <<sig_handler, sig_alarm, sig_tripped>>
  /\ UNCHANGED <<svc_vars, req_vars, bal_vars, conf_vars, txt_vars, sy_vars>>

\* lines 158, 173-174: get_model raises RuntimeError, answered 503
SigNotReady ==
  /\ sig_pc = "entered"
  /\ ~_model_ready
  /\ sig_pc' = "responded"
  /\ sig_outcome' = "not_ready"
  /\ UNCHANGED <<sig_request, sig_before, sig_old, sig_handler, sig_alarm, sig_tripped>>
  /\ UNCHANGED <<svc_vars, req_vars, bal_vars, conf_vars, txt_vars, sy_vars>>

\* lines 158-164: old_handler = signal.signal(signal.SIGALRM, _timeout_handler)
SigInstall ==
  /\ sig_pc = "entered"
  /\ _model_ready
  /\ sig_old' = sig_handler
  /\ sig_handler' = sig_request
  /\ sig_pc' = "installed"
  /\ UNCHANGED <<sig_request, sig_before, sig_alarm, sig_tripped, sig_outcome>>
  /\ UNCHANGED <<svc_vars, req_vars, bal_vars, conf_vars, txt_vars, sy_vars>>

\* line 165: signal.alarm(30) is called and the alarm is set
SigArm ==
  /\ sig_pc = "installed"
  /\ sig_alarm' = AlarmSeconds
  /\ sig_pc' = "arming"
  /\ UNCHANGED <<sig_request, sig_before, sig_old, sig_handler, sig_tripped, sig_outcome>>
  /\ UNCHANGED <<svc_vars, req_vars, bal_vars, conf_vars, txt_vars, sy_vars>>

\* line 165: the call returns; the interpreter looks for arrived signals
\* after a call, so with a signal arrived the handler runs instead
SigArmed ==
  /\ sig_pc = "arming"
  /\ ~sig_tripped
  /\ sig_pc' = "armed"
  /\ UNCHANGED <<sig_request, sig_before, sig_old, sig_handler, sig_alarm, sig_tripped,
                 sig_outcome>>
  /\ UNCHANGED <<svc_vars, req_vars, bal_vars, conf_vars, txt_vars, sy_vars>>

\* lines 166-167: the inner try is entered and model(image) is called; a
\* signal that arrived since line 165 returned is still waiting for its
\* handler, which runs inside the call
SigCall ==
  /\ sig_pc = "armed"
  /\ sig_pc' = "model"
  /\ UNCHANGED <<sig_request, sig_before, sig_old, sig_handler, sig_alarm, sig_tripped,
                 sig_outcome>>
  /\ UNCHANGED <<svc_vars, req_vars, bal_vars, conf_vars, txt_vars, sy_vars>>

\* line 167: model(image) returns or raises; line 168 is entered.  With a
\* signal arrived during the call, a return is followed by the handler at
\* once, inside the inner try (SigHandle); an exception leaves the call with
\* the signal still waiting, no handler runs while it unwinds
SigModelEnds ==
  /\ sig_pc = "model"
  /\ \E outcome \in IF sig_tripped THEN {"raised"} ELSE {"returned", "raised"} :
       sig_outcome' = outcome
  /\ sig_pc' = "finally"
  /\ UNCHANGED <<sig_request, sig_before, sig_old, sig_handler, sig_alarm, sig_tripped>>
  /\ UNCHANGED <<svc_vars, req_vars, bal_vars, conf_vars, txt_vars, sy_vars>>

\* line 169: signal.alarm(0); a signal that has already arrived stays arrived
SigCancel ==
  /\ sig_pc = "finally"
  /\ sig_alarm' = 0
  /\ sig_pc' = "cancelled"
  /\ UNCHANGED <<sig_request, sig_before, sig_old, sig_handler, sig_tripped, sig_outcome>>
  /\ UNCHANGED <<svc_vars, req_vars, bal_vars, conf_vars, txt_vars, sy_vars>>

\* line 170: signal.signal(signal.SIGALRM, old_handler); with a signal
\* arrived the handler runs after the call of line 169 instead
SigRestore ==
  /\ sig_pc = "cancelled"
  /\ ~sig_tripped
  /\ sig_handler' = sig_old
  /\ sig_pc' = "restored"
  /\ UNCHANGED <<sig_request, sig_before, sig_old, sig_alarm, sig_tripped, sig_outcome>>
  /\ UNCHANGED <<svc_vars, req_vars, bal_vars, conf_vars, txt_vars, sy_vars>>

\* lines 171-228: the rest of the handler
SigRespond ==
  /\ sig_pc = "restored"
  /\ sig_pc' = "responded"
  /\ UNCHANGED <<sig_request, sig_before, sig_old, sig_handler, sig_alarm, sig_tripped,
                 sig_outcome>>
  /\ UNCHANGED <<svc_vars, req_vars, bal_vars, conf_vars, txt_vars, sy_vars>>

\* line 165: a second of the alarm passes, whatever line the main thread is
\* at; at zero SIGALRM arrives. With the default handler installed the
\* signal ends the process.
SigTick ==
  /\ sig_alarm > 0
  /\ sig_alarm' = sig_alarm - 1
  /\ IF sig_alarm > 1
       THEN UNCHANGED <<sig_pc, sig_tripped>>
       ELSE IF sig_handler = 0
              THEN sig_pc' = "killed" /\ UNCHANGED sig_tripped
              ELSE sig_tripped' = TRUE /\ UNCHANGED sig_pc
  /\ UNCHANGED <<sig_request, sig_before, sig_old, sig_handler, sig_outcome>>
  /\ UNCHANGED <<svc_vars, req_vars, bal_vars, conf_vars, txt_vars, sy_vars>>

\* lines 161-162: the interpreter runs the handler of the arrived signal
\* after a call has returned or inside a called Python function, never
\* between two lines: as the call of line 165 returns, inside model(image)
\* or as it returns, or as the call of line 169 returns.  _timeout_handler
\* raises TimeoutError there.
SigHandle ==
  /\ sig_tripped
  /\ sig_pc \in {"arming", "model", "cancelled"}
  /\ sig_tripped' = FALSE
  /\ sig_pc' = _timeout_handler(sig_pc)
  /\ sig_outcome' = "timeout"
  /\ UNCHANGED <<sig_request, sig_before, sig_old, sig_handler, sig_alarm>>
  /\ UNCHANGED <<svc_vars, req_vars, bal_vars, conf_vars, txt_vars, sy_vars>>

SigNext ==
  \/ SigBegin
  \/ SigNotReady
  \/ SigInstall
  \/ SigArm
  \/ SigArmed
  \/ SigCall
  \/ SigModelEnds
  \/ SigCancel
  \/ SigRestore
  \/ SigRespond
  \/ SigTick
  \/ SigHandle

SpecSignal == SigInit /\ [][SigNext]_vars

\* C25: when a request that installed the timeout has ended, whether the
\* model call returned, raised or timed out, no alarm is pending and the
\* SIGALRM handler installed before the request is the installed handler
\* again. Refuted: the handler of a signal that arrives inside the call of
\* line 165, or after model(image) has ended and before line 169 takes
\* effect, or during a model(image) that then raises, runs outside the inner
\* try or inside its finally block before line 170, and the request ends
\* with its own _timeout_handler still installed.
C25_AlarmCancelledAndHandlerRestored ==
  (sig_pc = "responded" /\ sig_outcome # "not_ready") =>
     /\ sig_alarm = 0
     /\ ~sig_tripped
     /\ sig_handler = sig_before

\* the part of C25 that the code keeps: no alarm outlives its request, and
\* no alarm ever finds the default handler installed
C25_NoAlarmOutlivesItsRequest ==
  /\ sig_pc \in {"idle", "entered", "installed", "restored", "responded"} =>
       sig_alarm = 0 /\ ~sig_tripped
  /\ sig_pc # "killed"

====
